---- MODULE Spec2Model ----
(***************************************************************************)
(* Retrieval core of BibleStudyAI: the verse-boundary chunker              *)
(* (data_ingestion/chunker.py), the batched, cached embedding client       *)
(* (data_ingestion/optimized_embedder.py, services/ai_integration.py,      *)
(* database/redis_cache.py) and the two ingestion pipelines                *)
(* (data_ingestion/optimized_pipeline.py, data_ingestion/ingest.py).       *)
(*                                                                         *)
(* A verse is modelled by its number (its position in the sorted chapter)  *)
(* and the word count of its text; a chunk's content is the sequence of    *)
(* the verse texts joined into it, so len(content.split()) is the sum of   *)
(* the word counts.                                                        *)
(***************************************************************************)
EXTENDS Integers, Sequences, FiniteSets, TLC

\* ---------------------------------------------------------------- bounds
MaxVerses == 4
MaxVerseWords == 2
MaxContainers == 2
MaxChunkSize == 4
MaxOverlap == 2
MaxEmbedChunks == 3
NumTexts == 2
MaxBatchSize == 2
MaxConcurrent == 2
MaxRetry == 1
MaxRuns == 2
MaxRerunChunks == 2
MaxRetryChunks == 2
MaxLegacyChunks == 12
MaxLegacyChapters == 2
MaxLegacyFaults == 1
MaxInsertFaults == 1
MaxVectorResults == 2
MaxGraphResults == 2
MaxHits == 2
NumWords == 2
MaxSearchCalls == 2
MaxIndexChanges == 1
MaxReconnects == 1
MaxAdapterCalls == 3
MaxAdapterRows == 2
MaxConditions == 2
MaxFilterCalls == 2
MaxFieldValue == 2
MaxKeyLen == 2
MaxKeyCalls == 2
MaxSplitSize == 5
MaxSplitMin == 2
MaxTextLen == 6
MaxSplitChunks == 4

\* ------------------------------------------------------ program constants
\* "if len(chunk_batch) >= 10" of IngestionPipeline.run_ingestion
LegacyBatchSize == 10
\* "top_k: int = 3" of SearchTools.hybrid_search
HybridTopK == 3
\* "len(term.strip()) > 2" of SearchTools.hybrid_search
MinTermLength == 2
\* "graph_search(extracted_entities, max_depth=2)"
EntityDepth == 2
\* "graph_search(query_terms, max_depth=1)"
FallbackDepth == 1
\* "end - 200" of SemanticChunker._simple_split
SentenceWindow == 200
\* "top_k: int = 5" of SearchTools.vector_search
VectorTopK == 5

\* ------------------------------------------------------- generic helpers
Min2(a, b) == IF a < b THEN a ELSE b
Max2(a, b) == IF a > b THEN a ELSE b

RECURSIVE SeqSum(_)
SeqSum(s) == IF s = <<>> THEN 0 ELSE Head(s) + SeqSum(Tail(s))

\* Python s[:k] for k >= 0
FirstN(s, k) == SubSeq(s, 1, Min2(k, Len(s)))
\* Python s[-k:] for k > 0
LastN(s, k) == SubSeq(s, Max2(1, Len(s) - k + 1), Len(s))

\* All sequences over S of length lo..hi
SeqsOf(S, lo, hi) == UNION {[1..n -> S] : n \in lo..hi}

VARIABLES
    \* ---- chunker (AdvancedBiblicalChunker)
    corpus,                 \* the DataFrame: containers (book, chapter, verses)
    chunk_cfg,              \* ChunkingConfig
    cpc,                    \* position of chunk_bible_data
    ci,                     \* container being chunked
    vi,                     \* next verse of the for loop of _chunk_chapter
    chunks,                 \* _chunk_chapter: chunks
    current_chunk_verses,   \* _chunk_chapter: current_chunk_verses
    current_word_count,     \* _chunk_chapter: current_word_count
    book_chunks,            \* chunks returned by the chapters chunked so far
    out_chunks              \* chunk_bible_data: the returned list

chunkVars == <<corpus, chunk_cfg, cpc, ci, vi, chunks, current_chunk_verses,
               current_word_count, book_chunks, out_chunks>>

VARIABLES
    \* ---- embedding client (OptimizedEmbedder) inside OptimizedIngestionPipeline
    in_chunks,          \* the chunks handed to embed_chunks_batch
    emb_cfg,            \* EmbeddingConfig
    redis_up,           \* the Redis server answers
    redis_store,        \* the Redis server: key -> value
    max_runs,           \* pipeline runs made over the corpus
    run_no,             \* the current run
    ppc,                \* position of run_full_pipeline
    cache_results,      \* embed_chunks_batch: cache_results
    chunks_to_process,  \* embed_chunks_batch: chunks_to_process
    batches,            \* _process_chunks_concurrent: batches
    bpc,                \* position of each _process_single_batch task
    attempt,            \* _generate_embeddings_with_retry: attempt, per task
    embeddings,         \* _generate_embeddings_with_retry: embeddings, per task
    results,            \* _process_single_batch: results, per task
    sem,                \* _rate_limiter: free slots of the semaphore
    finish_order,       \* the tasks in the order in which they returned
    remote_calls,       \* provider requests issued during the current run
    outcome,            \* answer of the provider to each chunk's request
    all_results,        \* embed_chunks_batch: the returned list
    first_run,          \* what the first run returned and how many requests it made
    metrics,            \* IngestionMetrics
    milvus_rows,        \* rows accepted by collection.insert
    p_events,           \* the steps run_full_pipeline has taken, in order
    tries,              \* _generate_embeddings_with_retry: try blocks entered, per task
    sleeps              \* _generate_embeddings_with_retry: delays slept, per task

embedVars == <<in_chunks, emb_cfg, redis_up, redis_store, max_runs, run_no, ppc,
               cache_results, chunks_to_process, batches, bpc, attempt,
               embeddings, results, sem, finish_order, remote_calls, outcome,
               all_results, first_run, metrics, milvus_rows, p_events, tries,
               sleeps>>

VARIABLES
    \* ---- legacy pipeline (IngestionPipeline)
    lg_corpus,              \* the chapters of the translation and their chunks
    lg_redis_up,            \* the Redis server answers
    lg_store,               \* the Redis server: key -> value
    lg_milvus_up,           \* MilvusManager.is_available()
    lpc,                    \* position of run_ingestion
    lg_ch,                  \* chapter being ingested
    lg_i,                   \* run_ingestion: i of enumerate(chunks)
    chunk_batch,            \* run_ingestion: chunk_batch
    chunk_metadata_batch,   \* run_ingestion: chunk_metadata_batch
    lg_embeddings,          \* _process_chunk_batch: embeddings
    batch_calls,            \* the batches handed to _process_chunk_batch
    insert_calls,           \* the data handed to collection.insert, and its fate
    lg_faults,              \* provider requests that failed
    lg_raises,              \* calls of the vector engine that raised
    lg_setup,               \* what setup_databases achieved
    lg_conn,                \* the store connections of the process
    lg_graph_log            \* per chunk handled: its graph result and its fate

legacyVars == <<lg_corpus, lg_redis_up, lg_store, lg_milvus_up, lpc, lg_ch, lg_i,
                chunk_batch, chunk_metadata_batch, lg_embeddings, batch_calls,
                insert_calls, lg_faults, lg_raises, lg_setup, lg_conn,
                lg_graph_log>>

VARIABLES
    \* ---- SearchTools._calculate_fusion_score
    fpc,                    \* position of the call
    f_vector_results,       \* the argument vector_results
    f_graph_results,        \* the argument graph_results
    f_score                 \* the value returned

fusionVars == <<fpc, f_vector_results, f_graph_results, f_score>>

VARIABLES
    \* ---- SearchTools and the stores it reads
    s_query,            \* the query of the calls: its words
    s_milvus_up,        \* self.milvus_manager.is_available()
    s_hits,             \* the rows the vector engine finds for the query, best first
    s_redis_up,         \* the Redis server answers
    s_vcache,           \* Redis: the search_results entries of vector_search
    s_hcache,           \* Redis: the search_results entries of hybrid_search
    s_ecache,           \* Redis: the embedding entries of Embedder
    s_op,               \* the last call made
    s_top_k,            \* its top_k
    s_raised,           \* an exception left the last call
    s_vresult,          \* what the last vector_search returned
    s_hresult,          \* what the last hybrid_search returned
    s_trace,            \* what happened inside the last call
    s_calls,            \* calls made
    s_changes,          \* times the index content changed
    s_reconnects        \* times SearchTools was constructed again

searchVars == <<s_query, s_milvus_up, s_hits, s_redis_up, s_vcache, s_hcache,
                s_ecache, s_op, s_top_k, s_raised, s_vresult, s_hresult, s_trace,
                s_calls, s_changes, s_reconnects>>

VARIABLES
    \* ---- MilvusManager and Neo4jManager, called one operation at a time
    a_milvus_up,        \* MilvusManager.is_available()
    a_neo4j_up,         \* Neo4jConnection.get_driver() returns a driver
    a_collection,       \* the collection exists in Milvus
    a_rows,             \* rows of the collection
    a_flushed,          \* rows of the collection that were flushed
    a_nodes,            \* nodes of the graph
    a_op,               \* the last operation called
    a_result,           \* what it returned
    a_raised,           \* the engine raised inside the operation
    a_calls             \* operations called

adapterVars == <<a_milvus_up, a_neo4j_up, a_collection, a_rows, a_flushed, a_nodes,
                 a_op, a_result, a_raised, a_calls>>

VARIABLES
    \* ---- OptimizedMilvusManager: filtered search and delete
    fl_conditions,      \* the argument filter_conditions, in dict order
    fl_rows,            \* the rows of the collection
    fl_op,              \* the last operation called
    fl_expr,            \* the expression handed to the engine
    fl_result,          \* what the operation returned
    fl_calls            \* operations called

filterVars == <<fl_conditions, fl_rows, fl_op, fl_expr, fl_result, fl_calls>>

VARIABLES
    \* ---- embedding cache keys (Embedder, OptimizedEmbedder) on one Redis
    k_users,            \* cache key -> the (provider, model) of the requests that used it
    k_last,             \* the last request and whether it was served from the cache
    k_calls             \* requests made

keyVars == <<k_users, k_last, k_calls>>

VARIABLES
    \* ---- SemanticChunker._simple_split (ingestion/chunker.py)
    sp_text,            \* text, as the sequence "is a sentence end" of its characters
    sp_cfg,             \* ChunkingConfig
    sp_start,           \* start
    sp_chunks,          \* chunks, as the slice bounds of each
    sp_pc               \* position of _simple_split

splitVars == <<sp_text, sp_cfg, sp_start, sp_chunks, sp_pc>>

vars == <<chunkVars, embedVars, legacyVars, fusionVars, searchVars, adapterVars,
          filterVars, keyVars, splitVars>>

\* what each component leaves alone
outsideChunker == <<embedVars, legacyVars, fusionVars, searchVars, adapterVars, filterVars, keyVars,
    splitVars>>
outsideEmbedder == <<chunkVars, legacyVars, fusionVars, searchVars, adapterVars, filterVars, keyVars,
    splitVars>>
outsideLegacy == <<chunkVars, embedVars, fusionVars, searchVars, adapterVars, filterVars, keyVars,
    splitVars>>
outsideFusion == <<chunkVars, embedVars, legacyVars, searchVars, adapterVars, filterVars, keyVars,
    splitVars>>
outsideSearch == <<chunkVars, embedVars, legacyVars, fusionVars, adapterVars, filterVars, keyVars,
    splitVars>>
outsideAdapter == <<chunkVars, embedVars, legacyVars, fusionVars, searchVars,
                    filterVars, keyVars,
    splitVars>>
outsideFilter == <<chunkVars, embedVars, legacyVars, fusionVars, searchVars,
                   adapterVars, keyVars, splitVars>>
outsideKeys == <<chunkVars, embedVars, legacyVars, fusionVars, searchVars,
                 adapterVars, filterVars, splitVars>>
outsideSplit == <<chunkVars, embedVars, legacyVars, fusionVars, searchVars,
                  adapterVars, filterVars, keyVars>>

\* a component that is not running
ChunkerIdle ==
    /\ corpus = <<>>
    /\ chunk_cfg = [max_chunk_size |-> 0, min_chunk_size |-> 0, overlap_verses |-> 0]
    /\ cpc = "idle"
    /\ ci = 0
    /\ vi = 0
    /\ chunks = <<>>
    /\ current_chunk_verses = <<>>
    /\ current_word_count = 0
    /\ book_chunks = <<>>
    /\ out_chunks = <<>>

EmbedderIdle ==
    /\ in_chunks = <<>>
    /\ emb_cfg = [batch_size |-> 0, max_concurrent_batches |-> 0,
                  retry_attempts |-> 0, enable_caching |-> FALSE]
    /\ redis_up = FALSE
    /\ redis_store = <<>>
    /\ max_runs = 0
    /\ run_no = 0
    /\ ppc = "idle"
    /\ cache_results = <<>>
    /\ chunks_to_process = <<>>
    /\ batches = <<>>
    /\ bpc = <<>>
    /\ attempt = <<>>
    /\ embeddings = <<>>
    /\ results = <<>>
    /\ sem = 0
    /\ finish_order = <<>>
    /\ remote_calls = 0
    /\ outcome = <<>>
    /\ all_results = <<>>
    /\ first_run = <<>>
    /\ metrics = [total_chunks |-> 0, successful_embeddings |-> 0,
                  failed_embeddings |-> 0]
    /\ milvus_rows = <<>>
    /\ p_events = <<>>
    /\ tries = <<>>
    /\ sleeps = <<>>

LegacyIdle ==
    /\ lg_corpus = <<>>
    /\ lg_redis_up = FALSE
    /\ lg_store = <<>>
    /\ lg_milvus_up = FALSE
    /\ lpc = "idle"
    /\ lg_ch = 0
    /\ lg_i = 0
    /\ chunk_batch = <<>>
    /\ chunk_metadata_batch = <<>>
    /\ lg_embeddings = <<>>
    /\ batch_calls = <<>>
    /\ insert_calls = <<>>
    /\ lg_faults = 0
    /\ lg_raises = 0
    /\ lg_setup = [done |-> FALSE, collection |-> FALSE, constraints |-> FALSE]
    /\ lg_conn = [milvus |-> "none", neo4j |-> "none"]
    /\ lg_graph_log = <<>>

FusionIdle ==
    /\ fpc = "idle"
    /\ f_vector_results = <<>>
    /\ f_graph_results = <<>>
    /\ f_score = [n |-> 0, d |-> 1]

\* what a call that has not been made leaves in the trace
NoTrace == [unavailable |-> FALSE, embedding_failed |-> FALSE, zero_hits |-> FALSE,
            served |-> "none", vector_hits |-> 0, graph_seeds |-> {},
            graph_depth |-> 0, fallback |-> FALSE]

\* the value of a hybrid_search that has not returned
NoHybridResult == [vector_results |-> <<>>, graph_results |-> <<>>,
                   fusion_score |-> [n |-> 0, d |-> 1], keys |-> "none"]

\* what an adapter operation returns: True, False, None or a list of rows
AdapterResult(value, rows) == [value |-> value, rows |-> rows]

AdapterIdle ==
    /\ a_milvus_up = FALSE
    /\ a_neo4j_up = FALSE
    /\ a_collection = FALSE
    /\ a_rows = 0
    /\ a_flushed = 0
    /\ a_nodes = 0
    /\ a_op = "none"
    /\ a_result = AdapterResult("None", 0)
    /\ a_raised = FALSE
    /\ a_calls = 0

\* a request that has not been made
NoKeyRequest == [client |-> "none", provider |-> "none", model |-> <<>>, text |-> <<>>,
                 key |-> <<>>, hit |-> FALSE]

KeysIdle ==
    /\ k_users = <<>>
    /\ k_last = NoKeyRequest
    /\ k_calls = 0

SplitIdle ==
    /\ sp_text = <<>>
    /\ sp_cfg = [chunk_size |-> 0, chunk_overlap |-> 0, min_chunk_size |-> 0]
    /\ sp_start = 0
    /\ sp_chunks = <<>>
    /\ sp_pc = "idle"

FilterIdle ==
    /\ fl_conditions = <<>>
    /\ fl_rows = {}
    /\ fl_op = "none"
    /\ fl_expr = <<>>
    /\ fl_result = [ok |-> TRUE, rows |-> {}]
    /\ fl_calls = 0

SearchIdle ==
    /\ s_query = {}
    /\ s_milvus_up = FALSE
    /\ s_hits = <<>>
    /\ s_redis_up = FALSE
    /\ s_vcache = <<>>
    /\ s_hcache = <<>>
    /\ s_ecache = <<>>
    /\ s_op = "none"
    /\ s_top_k = 0
    /\ s_raised = FALSE
    /\ s_vresult = <<>>
    /\ s_hresult = NoHybridResult
    /\ s_trace = NoTrace
    /\ s_calls = 0
    /\ s_changes = 0
    /\ s_reconnects = 0

\* ======================================================================
\* Chunker: data_ingestion/chunker.py
\* ======================================================================

\* ChunkingConfig: the fields _chunk_chapter reads
ChunkingConfigs ==
    {c \in [max_chunk_size : 2..MaxChunkSize,
            min_chunk_size : 1..MaxChunkSize,
            overlap_verses : 0..MaxOverlap] :
        c.min_chunk_size <= c.max_chunk_size}

\* A chapter: the word count of each verse, in verse order
Chapters == SeqsOf(1..MaxVerseWords, 1, MaxVerses)

\* Offset of the first verse of group j when the groups have lengths lens
RECURSIVE Offset(_, _)
Offset(lens, j) == IF j = 1 THEN 0 ELSE Offset(lens, j - 1) + lens[j - 1]

RECURSIVE BookOf(_, _)
BookOf(newbook, j) ==
    IF j = 1 THEN 1 ELSE BookOf(newbook, j - 1) + (IF newbook[j] THEN 1 ELSE 0)

RECURSIVE ChapterOf(_, _)
ChapterOf(newbook, j) ==
    IF j = 1 \/ newbook[j] THEN 1 ELSE ChapterOf(newbook, j - 1) + 1

\* The DataFrame handed to chunk_bible_data: at most MaxVerses rows, cut into
\* its (book, chapter) groups in the order chunk_bible_data visits them (books
\* in order of appearance, chapters sorted inside a book)
Corpora ==
    {[j \in 1..Len(lens) |->
        [book |-> BookOf(newbook, j),
         chapter |-> ChapterOf(newbook, j),
         verses |-> SubSeq(flat, Offset(lens, j) + 1, Offset(lens, j) + lens[j])]] :
     <<flat, lens, newbook>> \in
        {t \in Chapters \X SeqsOf(1..MaxVerses, 1, MaxContainers)
                         \X SeqsOf(BOOLEAN, 1, MaxContainers) :
            /\ Len(t[2]) = Len(t[3])
            /\ SeqSum(t[2]) = Len(t[1])
            /\ t[3][1]}}

VerseWords(c, v) == corpus[c].verses[v]

RECURSIVE WordCount(_, _)
\* len(" ".join(v["text"] for v in verses).split())
WordCount(c, vs) ==
    IF vs = <<>> THEN 0 ELSE VerseWords(c, Head(vs)) + WordCount(c, Tail(vs))

\* BiblicalChunk.__post_init__: f"{book} {chapter}:{start_verse}-{end_verse}"
PassageReference(book, chapter, start_verse, end_verse) ==
    <<book, chapter, start_verse, end_verse>>

\* _create_chunk_from_verses and BiblicalChunk.__post_init__
CreateChunk(c, vs) ==
    [content |-> vs,
     book |-> corpus[c].book,
     chapter |-> corpus[c].chapter,
     start_verse |-> vs[1],
     end_verse |-> vs[Len(vs)],
     chunk_index |-> 0,
     word_count |-> WordCount(c, vs),
     verses_included |-> vs,
     verse_count |-> Len(vs),
     chunk_size |-> WordCount(c, vs),
     passage_reference |-> PassageReference(corpus[c].book, corpus[c].chapter,
                                            vs[1], vs[Len(vs)])]

\* the test that closes the running chunk before a verse is added
ExceedsMax(cwc, w, cur, cfg) == cwc + w > cfg.max_chunk_size /\ cur # <<>>

OverlapSeedFirst(cur, cfg) ==
    IF cfg.overlap_verses > 0 THEN FirstN(cur, cfg.overlap_verses) ELSE <<>>

\* the verses that seed the next chunk
OverlapSeed(cur, cfg) ==
    IF cfg.overlap_verses > 0 THEN LastN(cur, cfg.overlap_verses) ELSE <<>>

EmitStandaloneAlways(cwc, cfg, chs) == TRUE

\* the test that emits the remaining verses as a chunk of their own
EmitStandalone(cwc, cfg, chs) == cwc >= cfg.min_chunk_size \/ chs = <<>>

MergeDropsRemaining(c, chs, cur) == chs

\* the merge of the remaining verses into the last chunk
MergeIntoLast(c, chs, cur) ==
    LET last == chs[Len(chs)]
        extended == last.content \o cur
    IN [chs EXCEPT ![Len(chs)] =
            [last EXCEPT !.content = extended,
                         !.end_verse = cur[Len(cur)],
                         !.word_count = WordCount(c, extended)]]

\* "Handle remaining verses"
HandleRemaining(c, chs, cur, cwc, cfg) ==
    IF cur = <<>> THEN chs
    ELSE IF EmitStandalone(cwc, cfg, chs) THEN Append(chs, CreateChunk(c, cur))
    ELSE IF chs # <<>> THEN MergeIntoLast(c, chs, cur)
    ELSE chs

\* the flatten loop of chunk_bible_data
AssignIndexes(chs) == [i \in 1..Len(chs) |-> [chs[i] EXCEPT !.chunk_index = i - 1]]

ChunkerStart ==
    /\ corpus \in Corpora
    /\ chunk_cfg \in ChunkingConfigs
    /\ cpc = "loop"
    /\ ci = 1
    /\ vi = 1
    /\ chunks = <<>>
    /\ current_chunk_verses = <<>>
    /\ current_word_count = 0
    /\ book_chunks = <<>>
    /\ out_chunks = <<>>

InitChunk == ChunkerStart /\ EmbedderIdle /\ LegacyIdle /\ FusionIdle /\ SearchIdle /\ AdapterIdle /\ FilterIdle /\ KeysIdle /\ SplitIdle

\* one iteration of "for i, verse_data in enumerate(verses)"
ChunkVerse ==
    /\ cpc = "loop"
    /\ vi <= Len(corpus[ci].verses)
    /\ LET w == VerseWords(ci, vi) IN
       IF ExceedsMax(current_word_count, w, current_chunk_verses, chunk_cfg)
       THEN LET seed == OverlapSeed(current_chunk_verses, chunk_cfg) IN
            /\ chunks' = Append(chunks, CreateChunk(ci, current_chunk_verses))
            /\ current_chunk_verses' = Append(seed, vi)
            /\ current_word_count' = WordCount(ci, seed) + w
       ELSE /\ chunks' = chunks
            /\ current_chunk_verses' = Append(current_chunk_verses, vi)
            /\ current_word_count' = current_word_count + w
    /\ vi' = vi + 1
    /\ UNCHANGED <<corpus, chunk_cfg, cpc, ci, book_chunks, out_chunks>>
    /\ UNCHANGED outsideChunker

\* the end of _chunk_chapter: the remaining verses, then return chunks
FinishChapter ==
    /\ cpc = "loop"
    /\ vi > Len(corpus[ci].verses)
    /\ chunks' = HandleRemaining(ci, chunks, current_chunk_verses,
                                 current_word_count, chunk_cfg)
    /\ cpc' = "chapter_done"
    /\ UNCHANGED <<corpus, chunk_cfg, ci, vi, current_chunk_verses,
                   current_word_count, book_chunks, out_chunks>>
    /\ UNCHANGED outsideChunker

\* _chunk_book_async: chunks.extend(chapter_chunks), then the next chapter
NextChapter ==
    /\ cpc = "chapter_done"
    /\ ci < Len(corpus)
    /\ book_chunks' = book_chunks \o chunks
    /\ ci' = ci + 1
    /\ vi' = 1
    /\ chunks' = <<>>
    /\ current_chunk_verses' = <<>>
    /\ current_word_count' = 0
    /\ cpc' = "loop"
    /\ UNCHANGED <<corpus, chunk_cfg, out_chunks>>
    /\ UNCHANGED outsideChunker

\* chunk_bible_data: gather returned, flatten and number the chunks
FlattenChunks ==
    /\ cpc = "chapter_done"
    /\ ci = Len(corpus)
    /\ book_chunks' = book_chunks \o chunks
    /\ out_chunks' = AssignIndexes(book_chunks \o chunks)
    /\ cpc' = "done"
    /\ UNCHANGED <<corpus, chunk_cfg, ci, vi, chunks, current_chunk_verses,
                   current_word_count>>
    /\ UNCHANGED outsideChunker

NextChunk == ChunkVerse \/ FinishChapter \/ NextChapter \/ FlattenChunks

SpecChunk == InitChunk /\ [][NextChunk]_vars

\* ======================================================================
\* Properties of the chunker
\* ======================================================================

ChapterDone == cpc = "chapter_done"

\* words of the whole chapter being chunked
ChapterWords == SeqSum(corpus[ci].verses)

\* C7: every chunk emitted for a chapter has at most max_chunk_size words,
\* except a single chunk emitted for a chapter that has fewer than
\* min_chunk_size words in all.
C7_SizeInvariant ==
    ChapterDone =>
        \A i \in 1..Len(chunks) :
            \/ chunks[i].word_count <= chunk_cfg.max_chunk_size
            \/ Len(chunks) = 1 /\ ChapterWords < chunk_cfg.min_chunk_size

\* the adjacent pairs of chunks of the chapter, the final pair left out
InnerPairs == 1..(Len(chunks) - 2)

\* C8 as stated: with overlap_verses = k > 0, the last k verses of chunk i are
\* the first k verses of chunk i+1, for every adjacent pair but the final one.
C8_OverlapExact ==
    (ChapterDone /\ chunk_cfg.overlap_verses > 0) =>
        \A i \in InnerPairs :
            LastN(chunks[i].content, chunk_cfg.overlap_verses)
                = FirstN(chunks[i+1].content, chunk_cfg.overlap_verses)

\* C8 amended: with overlap_verses = k > 0 and m = min(k, number of verses of
\* chunk i), the last m verses of chunk i are the first m verses of chunk
\* i+1, for every adjacent pair but the final one.
C8_OverlapAmended ==
    (ChapterDone /\ chunk_cfg.overlap_verses > 0) =>
        \A i \in InnerPairs :
            LET m == Min2(chunk_cfg.overlap_verses, Len(chunks[i].content)) IN
            /\ Len(chunks[i+1].content) > m
            /\ LastN(chunks[i].content, m) = FirstN(chunks[i+1].content, m)

\* a chapter cut into three chunks, the first of which holds more verses than
\* the overlap
C8_Witness ==
    /\ ChapterDone
    /\ chunk_cfg.overlap_verses > 0
    /\ Len(chunks) >= 3
    /\ Len(chunks[1].content) > chunk_cfg.overlap_verses

\* C10: when the verses left after the loop have fewer than min_chunk_size
\* words, they are a chunk of their own only if no chunk was emitted before
\* them; otherwise the last chunk emitted is extended by exactly these verses
\* (content, end verse and word count) and no chunk is added.
C10_TrailingMerged ==
    (ChapterDone /\ current_word_count < chunk_cfg.min_chunk_size) =>
        /\ Len(chunks) >= 1
        /\ LET last == chunks[Len(chunks)] IN
           \/ /\ Len(chunks) = 1
              /\ last.content = current_chunk_verses
              /\ last.start_verse = 1
           \/ /\ last.content = last.verses_included \o current_chunk_verses
              /\ last.end_verse = Len(corpus[ci].verses)
              /\ last.word_count =
                    WordCount(ci, last.verses_included) + current_word_count

\* a short tail was merged into a chunk closed before it
C10_WitnessMerged ==
    /\ ChapterDone
    /\ current_word_count < chunk_cfg.min_chunk_size
    /\ Len(chunks) >= 2
    /\ chunks[Len(chunks)].content # chunks[Len(chunks)].verses_included

\* ======================================================================
\* Embedding client: data_ingestion/optimized_embedder.py,
\* services/ai_integration.py, database/redis_cache.py
\* ======================================================================

\* Python None, the empty list and the vector of a text
NoneValue == <<-1>>
EmptyVec == <<>>
Vec(text) == <<text>>

IsNotNone(e) == e # NoneValue
\* bool(e) of an Optional[List[float]]
Truthy(e) == e # NoneValue /\ e # EmptyVec

\* uuid4 ids: distinct, and in no relation to the position of the chunk
ChunkId(i) == 100 - i

Texts == 1..NumTexts

EmbeddingConfigs ==
    [batch_size : 1..MaxBatchSize,
     max_concurrent_batches : 1..MaxConcurrent,
     retry_attempts : 0..MaxRetry,
     enable_caching : BOOLEAN]

\* the chunks of a corpus as the chunker returns them: no embedding yet
InputChunks(maxlen) ==
    {[i \in 1..n |-> [id |-> ChunkId(i), content |-> c[i], embedding |-> NoneValue]] :
        <<n, c>> \in {t \in (1..maxlen) \X SeqsOf(Texts, 1, maxlen) : Len(t[2]) = t[1]}}

\* self._redis_manager after initialize()
RedisManagerPresent(cfg) == cfg.enable_caching

\* the methods class RedisManager defines
RedisManagerMethods ==
    {"connect", "disconnect", "get", "set", "delete", "exists", "set_json",
     "get_json", "cache_search_results", "get_cached_search_results"}

\* _generate_cache_key: md5 of provider:model:text, one key per text for the
\* provider and model of the config
GenerateCacheKey(text) == <<"embedding", "openai", "text-embedding-3-small", text>>

\* json.dumps / json.loads of a list of floats
JsonDumps(e) == [json |-> e]
JsonLoads(v) == v.json

\* RedisManager.set: the value is stored unless the server cannot be reached
RedisSet(store, up, key, value) ==
    IF up
    THEN [k \in DOMAIN store \cup {key} |-> IF k = key THEN value ELSE store[k]]
    ELSE store

\* _cache_embedding
CacheEmbedding(store, up, cfg, text, e) ==
    IF cfg.enable_caching /\ RedisManagerPresent(cfg)
    THEN RedisSet(store, up, GenerateCacheKey(text), JsonDumps(e))
    ELSE store

\* _check_cache_batch: (cache_results, chunks_to_process). The lookup is
\* self._redis_manager.mget(keys); a RedisManager without that method raises
\* AttributeError inside the try, and the handler processes every chunk.
CheckCacheBatch(chs, store, up) ==
    LET all == [i \in 1..Len(chs) |-> i] IN
    IF "mget" \notin RedisManagerMethods \/ ~up
    THEN [cache_results |-> <<>>, to_process |-> all]
    ELSE LET hit(i) == GenerateCacheKey(chs[i].content) \in DOMAIN store
             hits == {i \in 1..Len(chs) : hit(i)}
         IN [cache_results |->
                [id \in {chs[i].id : i \in hits} |->
                    JsonLoads(store[GenerateCacheKey(
                        chs[CHOOSE i \in hits : chs[i].id = id].content)])],
             to_process |-> SelectSeq(all, LAMBDA i : ~hit(i))]

\* chunks[i : i + batch_size] for i in range(0, len(chunks), batch_size)
SplitBatches(idx, bs) ==
    [b \in 1..((Len(idx) + bs - 1) \div bs) |->
        SubSeq(idx, (b - 1) * bs + 1, Min2(b * bs, Len(idx)))]

\* AIIntegration.get_embedding: the provider's vector, or [] when the request
\* raised; no exception leaves the method
GetEmbedding(text, answer) ==
    [raised |-> FALSE,
     value |-> IF answer = "ok" THEN Vec(text) ELSE EmptyVec]

\* EmbeddingResult of the task for one chunk
MakeEmbeddingResult(chunk, e) ==
    IF IsNotNone(e)
    THEN [chunk_id |-> chunk.id, embedding |-> e, success |-> TRUE,
          cache_hit |-> FALSE]
    ELSE [chunk_id |-> chunk.id, embedding |-> NoneValue, success |-> FALSE,
          cache_hit |-> FALSE]

\* EmbeddingResult of a cache hit
CacheHitResult(chunk, e) ==
    [chunk_id |-> chunk.id, embedding |-> e, success |-> TRUE, cache_hit |-> TRUE]

CanAcquireAlways(s) == TRUE

\* asyncio.Semaphore.acquire goes through only while a slot is free
CanAcquire(s) == s > 0

RECURSIVE Flatten(_)
\* all_results.extend(batch_result) over the gathered results, in task order
Flatten(rs) == IF rs = <<>> THEN <<>> ELSE Head(rs) \o Flatten(Tail(rs))

SortKeyById(r, chs) == r.chunk_id

\* chunk_id_to_index.get(x.chunk_id, 999999)
SortKey(r, chs) ==
    IF \E i \in 1..Len(chs) : chs[i].id = r.chunk_id
    THEN (CHOOSE i \in 1..Len(chs) :
            /\ chs[i].id = r.chunk_id
            /\ \A j \in (i+1)..Len(chs) : chs[j].id # r.chunk_id) - 1
    ELSE 999999

RECURSIVE InsertByKey(_, _, _)
\* r put behind every element whose key is not greater (a stable sort)
InsertByKey(sorted, r, chs) ==
    IF sorted = <<>> THEN <<r>>
    ELSE IF SortKey(Head(sorted), chs) <= SortKey(r, chs)
         THEN <<Head(sorted)>> \o InsertByKey(Tail(sorted), r, chs)
         ELSE <<r>> \o sorted

RECURSIVE SortResults(_, _)
\* all_results.sort(key=...)
SortResults(rs, chs) ==
    IF rs = <<>> THEN <<>>
    ELSE InsertByKey(SortResults(SubSeq(rs, 1, Len(rs) - 1), chs), rs[Len(rs)], chs)

\* the list embed_chunks_batch returns
CombineResults(chs, cached, processed) ==
    LET hitIdx == SelectSeq([i \in 1..Len(chs) |-> i],
                            LAMBDA i : chs[i].id \in DOMAIN cached)
        hits == [k \in 1..Len(hitIdx) |->
                    CacheHitResult(chs[hitIdx[k]], cached[chs[hitIdx[k]].id])]
    IN SortResults(hits \o processed, chs)

\* chunks[i].embedding = result.embedding for the successful results
AttachEmbeddings(chs, rs) ==
    [i \in 1..Len(chs) |->
        IF i <= Len(rs) /\ rs[i].success
        THEN [chs[i] EXCEPT !.embedding = rs[i].embedding]
        ELSE chs[i]]

\* sum(1 for r in results if r.success), sum(1 for r in results if not r.success)
CountResults(rs, ok) == Len(SelectSeq(rs, LAMBDA r : r.success = ok))

\* [chunk for chunk in chunks if chunk.embedding]
ChunksWithEmbeddings(chs) == SelectSeq(chs, LAMBDA c : Truthy(c.embedding))

\* the rows of one batch of insert_chunks_batch
InsertBatchRows(batch) ==
    LET kept == SelectSeq(batch, LAMBDA c : Truthy(c.embedding))
    IN [k \in 1..Len(kept) |-> [id |-> kept[k].id, embedding |-> kept[k].embedding]]

NumTasks == Len(batches)

\* run_full_pipeline before the embedding stage: initialize_components
\* connects to Milvus, the verses are loaded, the chunking stage has run
RunPrefix == <<"connect", "load", "chunk">>

\* what insert_chunks_batch does when given nbatches batches of which the
\* first accepted ones are inserted: the flush follows the last batch, and
\* is not reached when an insert raises
InsertEvents(nbatches, accepted) ==
    [b \in 1..accepted |-> "batch"] \o
    (IF accepted = nbatches THEN <<"flush">> ELSE <<>>)

\* _run_vector_storage_stage: create_collection and create_optimized_index,
\* then insert_chunks_batch if a chunk has an embedding; when the stage
\* raises, the finally block of run_full_pipeline closes the connection
StorageEvents(nbatches, accepted) ==
    <<"setup">> \o
    (IF nbatches > 0 THEN InsertEvents(nbatches, accepted) ELSE <<>>) \o
    (IF accepted = nbatches THEN <<>> ELSE <<"close">>)

PipelineStart(maxlen, runs) ==
    /\ in_chunks \in InputChunks(maxlen)
    /\ emb_cfg \in EmbeddingConfigs
    /\ redis_up \in BOOLEAN
    /\ redis_store = <<>>
    /\ max_runs = runs
    /\ run_no = 1
    /\ ppc = "embedding"
    /\ cache_results = <<>>
    /\ chunks_to_process = <<>>
    /\ batches = <<>>
    /\ bpc = <<>>
    /\ attempt = <<>>
    /\ embeddings = <<>>
    /\ results = <<>>
    /\ sem = emb_cfg.max_concurrent_batches
    /\ finish_order = <<>>
    /\ remote_calls = 0
    /\ outcome = [i \in 1..Len(in_chunks) |-> "none"]
    /\ all_results = <<>>
    /\ first_run = <<>>
    /\ metrics = [total_chunks |-> Len(in_chunks), successful_embeddings |-> 0,
                  failed_embeddings |-> 0]
    /\ milvus_rows = <<>>
    /\ p_events = RunPrefix
    /\ tries = <<>>
    /\ sleeps = <<>>

InitEmbed == ChunkerIdle /\ LegacyIdle /\ FusionIdle /\ SearchIdle /\ AdapterIdle /\ FilterIdle /\ KeysIdle /\ SplitIdle /\ PipelineStart(MaxEmbedChunks, 1)

\* embed_chunks_batch up to the gather: the cache check, the batches, one task
\* per batch
StartEmbedding ==
    /\ ppc = "embedding"
    /\ LET checked == IF emb_cfg.enable_caching /\ RedisManagerPresent(emb_cfg)
                      THEN CheckCacheBatch(in_chunks, redis_store, redis_up)
                      ELSE [cache_results |-> <<>>,
                            to_process |-> [i \in 1..Len(in_chunks) |-> i]]
           bs == SplitBatches(checked.to_process, emb_cfg.batch_size)
       IN /\ cache_results' = checked.cache_results
          /\ chunks_to_process' = checked.to_process
          /\ batches' = bs
          /\ bpc' = [b \in 1..Len(bs) |-> "wait"]
          /\ attempt' = [b \in 1..Len(bs) |-> 0]
          /\ embeddings' = [b \in 1..Len(bs) |-> <<>>]
          /\ results' = [b \in 1..Len(bs) |-> <<>>]
    /\ ppc' = "gathering"
    /\ UNCHANGED finish_order
    /\ UNCHANGED <<in_chunks, emb_cfg, redis_up, redis_store, max_runs, run_no, sem,
                   remote_calls, outcome, all_results, first_run, metrics,
                   milvus_rows>>
    /\ p_events' = Append(p_events, "embed")
    /\ tries' = [b \in 1..Len(batches') |-> 0]
    /\ sleeps' = [b \in 1..Len(batches') |-> <<>>]
    /\ UNCHANGED outsideEmbedder

\* "for attempt in range(self.config.retry_attempts)"
RetryRangeOneMore(cfg) == 0..cfg.retry_attempts

RetryRange(cfg) == 0..(cfg.retry_attempts - 1)

\* "self.config.retry_delay * (2**attempt)", in units of retry_delay
Backoff(a) == 2 ^ a

\* _process_single_batch: "async with self._rate_limiter" is entered; with
\* retry_attempts = 0 the retry loop has no iteration and returns [None] * len
Acquire(b) ==
    /\ ppc = "gathering"
    /\ bpc[b] = "wait"
    /\ CanAcquire(sem)
    /\ sem' = sem - 1
    /\ IF RetryRange(emb_cfg) = {}
       THEN /\ embeddings' = [embeddings EXCEPT
                                ![b] = [k \in 1..Len(batches[b]) |-> NoneValue]]
            /\ bpc' = [bpc EXCEPT ![b] = "results"]
            /\ tries' = tries
       ELSE /\ embeddings' = embeddings
            /\ bpc' = [bpc EXCEPT ![b] = "gen"]
            /\ tries' = [tries EXCEPT ![b] = 1]
    /\ UNCHANGED finish_order
    /\ UNCHANGED <<in_chunks, emb_cfg, redis_up, redis_store, max_runs, run_no, ppc,
                   cache_results, chunks_to_process, batches, attempt, results,
                   remote_calls, outcome, all_results, first_run, metrics,
                   milvus_rows>>
    /\ UNCHANGED <<p_events, sleeps>>
    /\ UNCHANGED outsideEmbedder

\* _generate_embeddings_with_retry: one "await get_embedding(text)" of the
\* running attempt; an exception ends the attempt (retry, or [None] * len
\* after the last attempt)
EmbedText(b) ==
    /\ ppc = "gathering"
    /\ bpc[b] = "gen"
    /\ LET idx == batches[b][Len(embeddings[b]) + 1] IN
       \E answer \in {"ok", "error"} :
          LET r == GetEmbedding(in_chunks[idx].content, answer) IN
          /\ remote_calls' = remote_calls + 1
          /\ outcome' = [outcome EXCEPT ![idx] = answer]
          /\ IF r.raised
             THEN IF attempt[b] < emb_cfg.retry_attempts - 1
                  THEN /\ attempt' = [attempt EXCEPT ![b] = @ + 1]
                       /\ sleeps' = [sleeps EXCEPT ![b] = Append(@, Backoff(attempt[b]))]
                       /\ tries' = [tries EXCEPT ![b] = @ + 1]
                       /\ embeddings' = [embeddings EXCEPT ![b] = <<>>]
                       /\ bpc' = bpc
                  ELSE /\ attempt' = attempt
                       /\ UNCHANGED <<tries, sleeps>>
                       /\ embeddings' = [embeddings EXCEPT
                              ![b] = [k \in 1..Len(batches[b]) |-> NoneValue]]
                       /\ bpc' = [bpc EXCEPT ![b] = "results"]
             ELSE /\ attempt' = attempt
                  /\ UNCHANGED <<tries, sleeps>>
                  /\ embeddings' = [embeddings EXCEPT ![b] = Append(@, r.value)]
                  /\ bpc' = IF Len(embeddings[b]) + 1 = Len(batches[b])
                            THEN [bpc EXCEPT ![b] = "results"]
                            ELSE bpc
    /\ UNCHANGED finish_order
    /\ UNCHANGED <<in_chunks, emb_cfg, redis_up, redis_store, max_runs, run_no, ppc,
                   cache_results, chunks_to_process, batches, results, sem,
                   all_results, first_run, metrics, milvus_rows>>
    /\ UNCHANGED p_events
    /\ UNCHANGED outsideEmbedder

\* _process_single_batch: the result of the next chunk of the batch, cached
\* when it is a success; after the last chunk the task sleeps
\* rate_limit_delay, or returns at once when it is the last batch
MakeResult(b) ==
    /\ ppc = "gathering"
    /\ bpc[b] = "results"
    /\ LET i == Len(results[b]) + 1
           chunk == in_chunks[batches[b][i]]
           e == IF i <= Len(embeddings[b]) THEN embeddings[b][i] ELSE NoneValue
           r == MakeEmbeddingResult(chunk, e)
           last == i = Len(batches[b])
       IN /\ results' = [results EXCEPT ![b] = Append(@, r)]
          /\ redis_store' = IF r.success
                            THEN CacheEmbedding(redis_store, redis_up, emb_cfg,
                                                chunk.content, e)
                            ELSE redis_store
          /\ bpc' = IF ~last THEN bpc
                    ELSE IF b < NumTasks THEN [bpc EXCEPT ![b] = "sleep"]
                    ELSE [bpc EXCEPT ![b] = "done"]
          /\ sem' = IF last /\ ~(b < NumTasks) THEN sem + 1 ELSE sem
          /\ finish_order' = IF last /\ ~(b < NumTasks)
                             THEN Append(finish_order, b) ELSE finish_order
    /\ UNCHANGED <<in_chunks, emb_cfg, redis_up, max_runs, run_no, ppc,
                   cache_results, chunks_to_process, batches, attempt, embeddings,
                   remote_calls, outcome, all_results, first_run, metrics,
                   milvus_rows>>
    /\ UNCHANGED <<p_events, tries, sleeps>>
    /\ UNCHANGED outsideEmbedder

\* _process_single_batch: the rate-limit sleep is over, the task returns and
\* leaves "async with"
WakeRelease(b) ==
    /\ ppc = "gathering"
    /\ bpc[b] = "sleep"
    /\ bpc' = [bpc EXCEPT ![b] = "done"]
    /\ sem' = sem + 1
    /\ finish_order' = Append(finish_order, b)
    /\ UNCHANGED <<in_chunks, emb_cfg, redis_up, redis_store, max_runs, run_no, ppc,
                   cache_results, chunks_to_process, batches, attempt, embeddings,
                   results, remote_calls, outcome, all_results, first_run,
                   metrics, milvus_rows>>
    /\ UNCHANGED <<p_events, tries, sleeps>>
    /\ UNCHANGED outsideEmbedder

\* gather returned: embed_chunks_batch combines, sorts, attaches and returns;
\* _run_embedding_stage counts the results
Combine ==
    /\ ppc = "gathering"
    /\ \A b \in 1..NumTasks : bpc[b] = "done"
    /\ LET rs == CombineResults(in_chunks, cache_results, Flatten(results)) IN
       /\ all_results' = rs
       /\ in_chunks' = AttachEmbeddings(in_chunks, rs)
       /\ metrics' = [metrics EXCEPT
             !.successful_embeddings = CountResults(rs, TRUE),
             !.failed_embeddings = CountResults(rs, FALSE)]
    /\ ppc' = "vector_storage"
    /\ UNCHANGED finish_order
    /\ UNCHANGED <<emb_cfg, redis_up, redis_store, max_runs, run_no, cache_results,
                   chunks_to_process, batches, bpc, attempt, embeddings, results,
                   sem, remote_calls, outcome, first_run, milvus_rows>>
    /\ UNCHANGED <<p_events, tries, sleeps>>
    /\ UNCHANGED outsideEmbedder

\* _run_vector_storage_stage: the chunks with an embedding go to
\* insert_chunks_batch, batch by batch; a collection.insert that raises makes
\* insert_chunks_batch return False and the stage raise
VectorStorage ==
    /\ ppc = "vector_storage"
    /\ LET with == ChunksWithEmbeddings(in_chunks)
           bs == SplitBatches(with, emb_cfg.batch_size)
       IN \E accepted \in 0..Len(bs) :
            /\ milvus_rows' = milvus_rows \o
                  Flatten([b \in 1..accepted |-> InsertBatchRows(bs[b])])
            /\ ppc' = IF accepted = Len(bs) THEN "graph_building" ELSE "raised"
            /\ p_events' = p_events \o StorageEvents(Len(bs), accepted)
            /\ UNCHANGED <<tries, sleeps>>
    /\ UNCHANGED finish_order
    /\ UNCHANGED <<in_chunks, emb_cfg, redis_up, redis_store, max_runs, run_no,
                   cache_results, chunks_to_process, batches, bpc, attempt,
                   embeddings, results, sem, remote_calls, outcome, all_results,
                   first_run, metrics>>
    /\ UNCHANGED outsideEmbedder

\* _run_graph_building_stage (a placeholder that writes nothing), the final
\* metrics and the return of run_full_pipeline
FinishPipeline ==
    /\ ppc = "graph_building"
    /\ ppc' = "completed"
    /\ UNCHANGED finish_order
    /\ UNCHANGED <<in_chunks, emb_cfg, redis_up, redis_store, max_runs, run_no,
                   cache_results, chunks_to_process, batches, bpc, attempt,
                   embeddings, results, sem, remote_calls, outcome, all_results,
                   first_run, metrics, milvus_rows>>
    /\ p_events' = p_events \o <<"graph", "close">>
    /\ UNCHANGED <<tries, sleeps>>
    /\ UNCHANGED outsideEmbedder

\* a further run of the pipeline over the same corpus: a new pipeline object
\* (new chunks, new embedder, new metrics) against the same Redis and Milvus
RunAgain ==
    /\ ppc = "completed"
    /\ run_no < max_runs
    /\ run_no' = run_no + 1
    /\ first_run' = IF run_no = 1
                    THEN [all_results |-> all_results,
                          remote_calls |-> remote_calls,
                          outcome |-> outcome]
                    ELSE first_run
    /\ in_chunks' = [i \in 1..Len(in_chunks) |->
                        [in_chunks[i] EXCEPT !.embedding = NoneValue]]
    /\ ppc' = "embedding"
    /\ cache_results' = <<>>
    /\ chunks_to_process' = <<>>
    /\ batches' = <<>>
    /\ bpc' = <<>>
    /\ attempt' = <<>>
    /\ embeddings' = <<>>
    /\ results' = <<>>
    /\ sem' = emb_cfg.max_concurrent_batches
    /\ finish_order' = <<>>
    /\ remote_calls' = 0
    /\ outcome' = [i \in 1..Len(in_chunks) |-> "none"]
    /\ all_results' = <<>>
    /\ metrics' = [total_chunks |-> Len(in_chunks), successful_embeddings |-> 0,
                   failed_embeddings |-> 0]
    /\ UNCHANGED <<emb_cfg, redis_up, redis_store, max_runs, milvus_rows>>
    /\ p_events' = RunPrefix
    /\ tries' = <<>>
    /\ sleeps' = <<>>
    /\ UNCHANGED outsideEmbedder

NextEmbed ==
    \/ StartEmbedding
    \/ \E b \in 1..NumTasks : Acquire(b)
    \/ \E b \in 1..NumTasks : EmbedText(b)
    \/ \E b \in 1..NumTasks : MakeResult(b)
    \/ \E b \in 1..NumTasks : WakeRelease(b)
    \/ Combine
    \/ VectorStorage
    \/ FinishPipeline

SpecEmbed == InitEmbed /\ [][NextEmbed]_vars

InitRerun == ChunkerIdle /\ LegacyIdle /\ FusionIdle /\ SearchIdle /\ AdapterIdle /\ FilterIdle /\ KeysIdle /\ SplitIdle /\ PipelineStart(MaxRerunChunks, MaxRuns)

NextRerun == NextEmbed \/ RunAgain

SpecRerun == InitRerun /\ [][NextRerun]_vars

\* ======================================================================
\* Properties of the embedding client and of the optimized pipeline
\* ======================================================================

\* embed_chunks_batch has returned
Returned == ppc \in {"vector_storage", "graph_building", "completed", "raised"}

\* C1: embed_chunks_batch returns one result per input chunk, the i-th result
\* carries the id of the i-th chunk, a successful result's embedding is the
\* one attached to chunks[i], and a vector is the vector of that chunk's text,
\* whatever the order in which the batch tasks finished.
C1_OrderingPreserved ==
    Returned =>
        /\ Len(all_results) = Len(in_chunks)
        /\ \A i \in 1..Len(in_chunks) :
              /\ all_results[i].chunk_id = in_chunks[i].id
              /\ all_results[i].success =>
                    in_chunks[i].embedding = all_results[i].embedding
              /\ ~all_results[i].success => in_chunks[i].embedding = NoneValue
              /\ Truthy(all_results[i].embedding) =>
                    all_results[i].embedding = Vec(in_chunks[i].content)

\* the call returned after a later batch finished before an earlier one, with
\* vectors of different texts in the results
C1_WitnessOutOfOrder ==
    /\ Returned
    /\ NumTasks >= 2
    /\ \E k \in 1..(Len(finish_order) - 1) : finish_order[k] > finish_order[k+1]
    /\ \E i, j \in 1..Len(all_results) :
          /\ Truthy(all_results[i].embedding)
          /\ Truthy(all_results[j].embedding)
          /\ all_results[i].embedding # all_results[j].embedding

\* C2: with caching enabled and Redis reachable, a second embedding of texts
\* that were all embedded successfully issues no provider request and returns
\* the vectors of the first.
C2_CacheRoundTrip ==
    (/\ Returned
     /\ run_no = 2
     /\ emb_cfg.enable_caching
     /\ redis_up
     /\ \A i \in 1..Len(in_chunks) : first_run.outcome[i] = "ok") =>
        /\ remote_calls = 0
        /\ \A i \in 1..Len(in_chunks) :
              all_results[i].embedding = first_run.all_results[i].embedding

\* the provider requests of a batch all failed
BatchFailed(b) ==
    /\ emb_cfg.retry_attempts > 0
    /\ \A k \in 1..Len(batches[b]) : outcome[batches[b][k]] = "error"

\* C5: when every provider request of a batch failed, embed_chunks_batch
\* returns a failure result for every chunk of that batch.
C5_FailedBatchReported ==
    Returned =>
        \A b \in 1..NumTasks :
            BatchFailed(b) =>
                \A k \in 1..Len(batches[b]) : ~all_results[batches[b][k]].success

\* tasks that hold a slot of the semaphore
InFlight == Cardinality({b \in 1..NumTasks : bpc[b] \in {"gen", "results", "sleep"}})

\* C6: at most max_concurrent_batches batch tasks are inside
\* "async with self._rate_limiter" at any moment.
C6_BoundedConcurrency == InFlight <= emb_cfg.max_concurrent_batches

\* every slot is taken while another batch waits for one
C6_WitnessSaturated ==
    /\ ppc = "gathering"
    /\ InFlight = emb_cfg.max_concurrent_batches
    /\ \E b \in 1..NumTasks : bpc[b] = "wait"

\* chunks whose provider request failed
FailedChunks == {i \in 1..Len(in_chunks) : outcome[i] = "error"}

\* C4: a completed run in which the provider failed for exactly one chunk has
\* stored the other N-1 chunks and counted one failed chunk.
C4_OneFailureSkipped ==
    (/\ ppc = "completed"
     /\ run_no = 1
     /\ Cardinality(FailedChunks) = 1
     /\ \A i \in 1..Len(in_chunks) : outcome[i] # "none") =>
        /\ Len(milvus_rows) = Len(in_chunks) - 1
        /\ metrics.failed_embeddings = 1

\* ======================================================================
\* Legacy pipeline: data_ingestion/ingest.py, data_ingestion/embedder.py,
\* database/milvus_vector.py, database/neo4j_graph.py
\* ======================================================================

\* The chapters run_ingestion visits for one translation, in its order, each
\* with the number of chunks HybridChunker.chunk_text returns for it (at
\* least one: chunk_text closes every text with a chunk)
LegacyCorpora ==
    {[j \in 1..Len(lens) |->
        [book |-> BookOf(newbook, j),
         chapter |-> ChapterOf(newbook, j),
         n_chunks |-> lens[j]]] :
     <<lens, newbook>> \in
        {t \in SeqsOf(1..MaxLegacyChunks, 1, MaxLegacyChapters)
                \X SeqsOf(BOOLEAN, 1, MaxLegacyChapters) :
            /\ Len(t[1]) = Len(t[2])
            /\ SeqSum(t[1]) <= MaxLegacyChunks
            /\ t[2][1]}}

\* the text of chunk i of a chapter: chunks i and i + NumTexts read the same
LegacyText(i) == (i % NumTexts) + 1

\* f"{translation}_{book}_{chapter}_{i}"
LegacyChunkId(book, chapter, i) == <<book, chapter, i>>

\* f"embedding:{hash(text)}"
LegacyCacheKey(text) == <<"embedding", text>>

\* Embedder._get_cached_embedding: the decoded value, None on a miss or when
\* Redis cannot be reached
GetCachedEmbedding(store, up, text) ==
    IF up /\ LegacyCacheKey(text) \in DOMAIN store
    THEN JsonLoads(store[LegacyCacheKey(text)])
    ELSE NoneValue

\* Embedder.embed_text of a non-empty text: the cached vector if there is
\* one, else what get_embedding returns, cached when it is not empty
LegacyEmbed(store, up, text, answer) ==
    LET cached == GetCachedEmbedding(store, up, text) IN
    IF Truthy(cached)
    THEN [embedding |-> cached, store |-> store, remote |-> FALSE]
    ELSE LET e == GetEmbedding(text, answer).value IN
         [embedding |-> e,
          store |-> IF Truthy(e)
                    THEN RedisSet(store, up, LegacyCacheKey(text), JsonDumps(e))
                    ELSE store,
          remote |-> TRUE]

\* the methods class Neo4jManager defines
Neo4jManagerMethods == {"execute_query", "create_node", "find_nodes"}

\* "if i < len(embeddings) and embeddings[i] is not None"
LegacyKeepRow(embs, i) == i <= Len(embs) /\ IsNotNone(embs[i])

\* milvus_batch_data of _process_chunk_batch
MilvusBatchData(texts, meta, embs) ==
    LET kept == SelectSeq([i \in 1..Len(texts) |-> i],
                          LAMBDA i : LegacyKeepRow(embs, i))
    IN [k \in 1..Len(kept) |->
            [id |-> meta[kept[k]].chunk_id,
             book |-> meta[kept[k]].book,
             chapter |-> meta[kept[k]].chapter,
             chunk_index |-> meta[kept[k]].chunk_index,
             text |-> texts[kept[k]],
             vector |-> embs[kept[k]]]]

\* the replacement fields str.format finds in GRAPH_GENERATION_PROMPT: the
\* braces of the JSON example open a field of their own
GraphGenerationPromptFields == {"\n  \"nodes\"", "text"}

\* template.format(text=text) raises KeyError for a field that is not "text"
PromptFormatRaises(fields) == \E f \in fields : f # "text"

\* what the LLM can answer to the graph prompt
GraphAnswers == {"graph", "no_edges", "malformed", "error"}

\* GraphBuilder.build_graph_from_text, as the element of graph_results that
\* gather(return_exceptions=True) holds for the chunk: the prompt is
\* formatted outside the try
BuildGraphFromText(text, answer) ==
    IF text = 0 THEN "empty"
    ELSE IF PromptFormatRaises(GraphGenerationPromptFields) THEN "exception"
    ELSE IF answer \in {"graph", "no_edges"} THEN answer
    ELSE "empty"

\* "Handle graph data" of _process_chunk_batch for chunk i: the loop goes on
\* to the next chunk when the embedding is None; an Exception and a result
\* without nodes or edges are passed over in silence; add_graph_from_json is
\* no method of Neo4jManager, the AttributeError is logged
HandleGraphData(embs, i, result) ==
    IF ~LegacyKeepRow(embs, i) THEN [written |-> FALSE, recorded |-> FALSE]
    ELSE IF result # "graph" THEN [written |-> FALSE, recorded |-> FALSE]
    ELSE IF "add_graph_from_json" \in Neo4jManagerMethods
         THEN [written |-> TRUE, recorded |-> FALSE]
         ELSE [written |-> FALSE, recorded |-> TRUE]

\* the rows of lg_graph_log for one batch
GraphLogOfBatch(texts, meta, embs, answer) ==
    [i \in 1..Len(texts) |->
        LET result == BuildGraphFromText(texts[i], answer)
            fate == HandleGraphData(embs, i, result)
        IN [chunk_id |-> meta[i].chunk_id,
            extraction |-> result,
            embedded |-> Truthy(embs[i]),
            written |-> fate.written,
            recorded |-> fate.recorded]]

\* the state in which main() calls run_ingestion: IngestionPipeline() has
\* connected to Milvus if it can be reached; no translation at all is the
\* empty corpus
LegacyStart ==
    /\ lg_corpus \in LegacyCorpora \cup {<<>>}
    /\ lg_redis_up \in BOOLEAN
    /\ lg_store = <<>>
    /\ lg_milvus_up \in BOOLEAN
    /\ lpc = "main"
    /\ lg_setup = [done |-> FALSE, collection |-> FALSE, constraints |-> FALSE]
    /\ lg_conn = [milvus |-> IF lg_milvus_up THEN "open" ELSE "none", neo4j |-> "none"]
    /\ lg_graph_log = <<>>
    /\ lg_ch = 1
    /\ lg_i = 0
    /\ chunk_batch = <<>>
    /\ chunk_metadata_batch = <<>>
    /\ lg_embeddings = <<>>
    /\ batch_calls = <<>>
    /\ insert_calls = <<>>
    /\ lg_faults = 0
    /\ lg_raises = 0

InitLegacy == ChunkerIdle /\ EmbedderIdle /\ FusionIdle /\ SearchIdle /\ AdapterIdle /\ FilterIdle /\ KeysIdle /\ SplitIdle /\ LegacyStart

\* setup_databases and the test of get_translations: has_collection,
\* create_collection and create_index return False when Milvus is not
\* available or the engine raises, and nothing looks at what they return;
\* create_uniqueness_constraint is no method of Neo4jManager, the
\* AttributeError is logged as a warning
LegacySetup ==
    /\ lpc = "main"
    /\ \E exists \in BOOLEAN, created \in BOOLEAN :
          /\ ~created => (lg_milvus_up /\ ~exists /\ lg_raises < MaxInsertFaults)
          /\ exists => lg_milvus_up
          /\ lg_setup' = [done |-> TRUE,
                          collection |-> lg_milvus_up /\ (exists \/ created),
                          constraints |->
                              "create_uniqueness_constraint" \in Neo4jManagerMethods]
          /\ lg_raises' = IF created THEN lg_raises ELSE lg_raises + 1
    /\ lpc' = IF lg_corpus = <<>> THEN "returned" ELSE "loop"
    /\ UNCHANGED <<lg_corpus, lg_redis_up, lg_store, lg_milvus_up, lg_ch, lg_i,
                   chunk_batch, chunk_metadata_batch, lg_embeddings, batch_calls,
                   insert_calls, lg_faults, lg_conn, lg_graph_log>>
    /\ UNCHANGED outsideLegacy

\* "if len(chunk_batch) >= 10 or i == len(chunks) - 1"
BatchIsDueBySizeOnly(batch, i, n) == Len(batch) >= LegacyBatchSize

BatchIsDue(batch, i, n) == Len(batch) >= LegacyBatchSize \/ i = n - 1

\* one iteration of "for i, chunk_text in enumerate(chunks)" up to the test
\* that hands the batch to _process_chunk_batch
LegacyAppendChunk ==
    /\ lpc = "loop"
    /\ lg_i < lg_corpus[lg_ch].n_chunks
    /\ LET c == lg_corpus[lg_ch]
           batch == Append(chunk_batch, LegacyText(lg_i))
       IN /\ chunk_batch' = batch
          /\ chunk_metadata_batch' = Append(chunk_metadata_batch,
                [chunk_id |-> LegacyChunkId(c.book, c.chapter, lg_i),
                 book |-> c.book, chapter |-> c.chapter, chunk_index |-> lg_i])
          /\ IF BatchIsDue(batch, lg_i, c.n_chunks)
             THEN /\ lpc' = "embed"
                  /\ batch_calls' = Append(batch_calls, chunk_metadata_batch')
             ELSE /\ lpc' = "loop"
                  /\ batch_calls' = batch_calls
    /\ lg_i' = lg_i + 1
    /\ UNCHANGED <<lg_corpus, lg_redis_up, lg_store, lg_milvus_up, lg_ch,
                   lg_embeddings, insert_calls, lg_faults, lg_raises, lg_setup,
                   lg_conn, lg_graph_log>>
    /\ UNCHANGED outsideLegacy

\* _process_chunk_batch: one "await self.embedder.embed_text(chunk_text)"
LegacyEmbedText ==
    /\ lpc = "embed"
    /\ LET text == chunk_batch[Len(lg_embeddings) + 1] IN
       \E answer \in {"ok", "error"} :
          LET r == LegacyEmbed(lg_store, lg_redis_up, text, answer) IN
          /\ (answer = "error") => (r.remote /\ lg_faults < MaxLegacyFaults)
          /\ lg_embeddings' = Append(lg_embeddings, r.embedding)
          /\ lg_store' = r.store
          /\ lg_faults' = IF answer = "error" THEN lg_faults + 1 ELSE lg_faults
    /\ lpc' = IF Len(lg_embeddings) + 1 = Len(chunk_batch) THEN "ingest" ELSE "embed"
    /\ UNCHANGED <<lg_corpus, lg_redis_up, lg_milvus_up, lg_ch, lg_i, chunk_batch,
                   chunk_metadata_batch, batch_calls, insert_calls, lg_raises,
                   lg_setup, lg_conn, lg_graph_log>>
    /\ UNCHANGED outsideLegacy

\* the rest of _process_chunk_batch and the return to the loop: the graph
\* results are built and none is written (add_graph_from_json is no method of
\* Neo4jManager, the AttributeError is logged), the rows are collected and
\* handed to insert_batch, which hands them to collection.insert when Milvus
\* is available; run_ingestion then empties both batches
LegacyIngestBatch ==
    /\ lpc = "ingest"
    /\ LET data == MilvusBatchData(chunk_batch, chunk_metadata_batch, lg_embeddings) IN
       IF data # <<>> /\ lg_milvus_up
       THEN \E stored \in BOOLEAN :
               /\ ~stored => lg_raises < MaxInsertFaults
               /\ insert_calls' = Append(insert_calls,
                                         [data |-> data, stored |-> stored])
               /\ lg_raises' = IF stored THEN lg_raises ELSE lg_raises + 1
       ELSE /\ insert_calls' = insert_calls
            /\ lg_raises' = lg_raises
    /\ \E answer \in GraphAnswers :
          lg_graph_log' = lg_graph_log \o
              GraphLogOfBatch(chunk_batch, chunk_metadata_batch, lg_embeddings, answer)
    /\ chunk_batch' = <<>>
    /\ chunk_metadata_batch' = <<>>
    /\ lg_embeddings' = <<>>
    /\ lpc' = "loop"
    /\ UNCHANGED <<lg_corpus, lg_redis_up, lg_store, lg_milvus_up, lg_ch, lg_i,
                   batch_calls, lg_faults, lg_setup, lg_conn>>
    /\ UNCHANGED outsideLegacy

\* the chunks of the chapter are exhausted: the next chapter
LegacyNextChapter ==
    /\ lpc = "loop"
    /\ lg_i = lg_corpus[lg_ch].n_chunks
    /\ lg_ch < Len(lg_corpus)
    /\ lg_ch' = lg_ch + 1
    /\ lg_i' = 0
    /\ UNCHANGED <<lg_corpus, lg_redis_up, lg_store, lg_milvus_up, lpc, chunk_batch,
                   chunk_metadata_batch, lg_embeddings, batch_calls, insert_calls,
                   lg_faults, lg_raises, lg_setup, lg_conn, lg_graph_log>>
    /\ UNCHANGED outsideLegacy

\* after the last chapter: milvus_manager.flush, then neo4j_manager.close(),
\* which Neo4jManager does not define: run_ingestion ends with AttributeError
LegacyFlushAndClose ==
    /\ lpc = "loop"
    /\ lg_i = lg_corpus[lg_ch].n_chunks
    /\ lg_ch = Len(lg_corpus)
    /\ lpc' = IF "close" \in Neo4jManagerMethods THEN "completed" ELSE "raised"
    /\ UNCHANGED <<lg_corpus, lg_redis_up, lg_store, lg_milvus_up, lg_ch, lg_i,
                   chunk_batch, chunk_metadata_batch, lg_embeddings, batch_calls,
                   insert_calls, lg_faults, lg_raises, lg_setup, lg_conn,
                   lg_graph_log>>
    /\ UNCHANGED outsideLegacy

\* main(): run_ingestion has returned or raised (the exception is logged);
\* the finally block calls neo4j_manager.close(), which Neo4jManager does
\* not define, and passes over the AttributeError; nothing calls
\* milvus_manager.close()
LegacyMainFinally ==
    /\ lpc \in {"returned", "completed", "raised"}
    /\ lpc' = "finished"
    /\ lg_conn' = IF "close" \in Neo4jManagerMethods /\ lg_conn.neo4j = "open"
                  THEN [lg_conn EXCEPT !.neo4j = "closed"]
                  ELSE lg_conn
    /\ UNCHANGED <<lg_corpus, lg_redis_up, lg_store, lg_milvus_up, lg_ch, lg_i,
                   chunk_batch, chunk_metadata_batch, lg_embeddings, batch_calls,
                   insert_calls, lg_faults, lg_raises, lg_setup, lg_graph_log>>
    /\ UNCHANGED outsideLegacy

NextLegacy ==
    \/ LegacySetup
    \/ LegacyMainFinally
    \/ LegacyAppendChunk
    \/ LegacyEmbedText
    \/ LegacyIngestBatch
    \/ LegacyNextChapter
    \/ LegacyFlushAndClose

SpecLegacy == InitLegacy /\ [][NextLegacy]_vars

\* ======================================================================
\* Properties of the two pipelines
\* ======================================================================

\* C3: no chunk whose embedding is absent or empty is among the rows either
\* pipeline hands to the vector index: the rows insert_chunks_batch inserts
\* (optimized pipeline) and the rows _process_chunk_batch passes to
\* collection.insert (legacy pipeline) all carry a non-empty vector.
C3_NoEmptyEmbeddingInserted ==
    /\ \A k \in 1..Len(milvus_rows) : Truthy(milvus_rows[k].embedding)
    /\ \A c \in 1..Len(insert_calls) :
          \A k \in 1..Len(insert_calls[c].data) :
              Truthy(insert_calls[c].data[k].vector)

\* the books of the chunks chunk_bible_data returned
OutBooks == {out_chunks[k].book : k \in 1..Len(out_chunks)}

\* the ordinals of the chunks of a book
OrdinalsOfBook(b) ==
    {out_chunks[k].chunk_index : k \in {j \in 1..Len(out_chunks) : out_chunks[j].book = b}}

ChunksOfBook(b) == Cardinality({k \in 1..Len(out_chunks) : out_chunks[k].book = b})

\* C9: the ordinals chunk_bible_data assigns to the N chunks of a book are
\* exactly 0..N-1, however many other books are chunked in the same call.
C9_OrdinalsPerContainer ==
    cpc = "done" =>
        \A b \in OutBooks : OrdinalsOfBook(b) = 0..(ChunksOfBook(b) - 1)

\* ======================================================================
\* Fusion score: agents/tools.py, SearchTools._calculate_fusion_score
\* ======================================================================

RECURSIVE Gcd(_, _)
Gcd(a, b) == IF b = 0 THEN a ELSE Gcd(b, a % b)

Abs(a) == IF a < 0 THEN -a ELSE a

\* A score is the exact rational n/d in lowest terms (d > 0); the code
\* computes the same expressions in binary floating point.
Rat(n, d) == LET g == Gcd(Abs(n), d) IN [n |-> n \div g, d |-> d \div g]
RatAdd(a, b) == Rat(a.n * b.d + b.n * a.d, a.d * b.d)
RatMul(a, b) == Rat(a.n * b.n, a.d * b.d)
RatDivInt(a, k) == Rat(a.n, a.d * k)
RatLeq(a, b) == a.n * b.d <= b.n * a.d
RatEq(a, b) == a.n * b.d = b.n * a.d
RatMin(a, b) == IF RatLeq(a, b) THEN a ELSE b

RECURSIVE RatSum(_)
RatSum(s) == IF s = <<>> THEN Rat(0, 1) ELSE RatAdd(Head(s), RatSum(Tail(s)))

\* the values r.get("similarity_score", 0) takes
SimilarityScores == {Rat(0, 1), Rat(1, 2), Rat(1, 1)}

\* the values r.get("relevance_score", 0) takes: the query returns
\* (n.importance + m.importance) / (distance + 1), importance being whatever
\* number the node carries
RelevanceScores == {Rat(-1, 1), Rat(1, 2), Rat(2, 1)}

\* the values r.get("relationship_types", []) takes, as sets of type names
RelationshipTypeSets == {{}, {1}, 1..10, 1..11}

VectorResultLists ==
    SeqsOf([similarity_score : SimilarityScores, has_keywords : BOOLEAN],
           0, MaxVectorResults)

GraphResultLists ==
    SeqsOf([relevance_score : RelevanceScores,
            relationship_types : RelationshipTypeSets],
           0, MaxGraphResults)

\* "Vector component (30% weight)"
VectorScore(vr) ==
    IF vr = <<>> THEN Rat(0, 1)
    ELSE LET avg_similarity ==
                 RatDivInt(RatSum([i \in 1..Len(vr) |-> vr[i].similarity_score]),
                           Len(vr))
             keyword_bonus ==
                 Rat(Len(SelectSeq(vr, LAMBDA r : r.has_keywords)), Len(vr))
         IN RatMul(RatAdd(RatMul(avg_similarity, Rat(7, 10)),
                          RatMul(keyword_bonus, Rat(3, 10))),
                   Rat(3, 10))

\* "Graph component (70% weight)"
GraphScore(gr) ==
    IF gr = <<>> THEN Rat(0, 1)
    ELSE LET avg_relevance ==
                 RatDivInt(RatSum([i \in 1..Len(gr) |-> gr[i].relevance_score]),
                           Len(gr))
             relationship_diversity ==
                 Cardinality(UNION {gr[i].relationship_types : i \in 1..Len(gr)})
         IN RatMul(RatAdd(RatMul(avg_relevance, Rat(8, 10)),
                          RatMul(RatMin(Rat(relationship_diversity, 10), Rat(1, 1)),
                                 Rat(2, 10))),
                   Rat(7, 10))

CalculateFusionScoreWeightedTwice(vr, gr) ==
    RatAdd(RatMul(Rat(3, 10), VectorScore(vr)), RatMul(Rat(7, 10), GraphScore(gr)))

\* _calculate_fusion_score
CalculateFusionScore(vr, gr) ==
    IF vr = <<>> /\ gr = <<>> THEN Rat(0, 1)
    ELSE RatMin(RatAdd(VectorScore(vr), GraphScore(gr)), Rat(1, 1))

InitFusion ==
    /\ ChunkerIdle /\ EmbedderIdle /\ LegacyIdle /\ SearchIdle /\ AdapterIdle /\ FilterIdle /\ KeysIdle /\ SplitIdle
    /\ fpc = "called"
    /\ f_vector_results \in VectorResultLists
    /\ f_graph_results \in GraphResultLists
    /\ f_score = Rat(0, 1)

\* the call returns
FusionReturn ==
    /\ fpc = "called"
    /\ f_score' = CalculateFusionScore(f_vector_results, f_graph_results)
    /\ fpc' = "returned"
    /\ UNCHANGED <<f_vector_results, f_graph_results>>
    /\ UNCHANGED outsideFusion

NextFusion == FusionReturn

SpecFusion == InitFusion /\ [][NextFusion]_vars

\* ======================================================================
\* Properties of the fusion score
\* ======================================================================

VectorComponent(vr) ==
    IF vr = <<>> THEN Rat(0, 1)
    ELSE RatMul(RatAdd(RatMul(Rat(7, 10),
                              RatDivInt(RatSum([i \in 1..Len(vr) |->
                                                  vr[i].similarity_score]), Len(vr))),
                       RatMul(Rat(3, 10),
                              Rat(Cardinality({i \in 1..Len(vr) : vr[i].has_keywords}),
                                  Len(vr)))),
                Rat(3, 10))

GraphComponent(gr) ==
    IF gr = <<>> THEN Rat(0, 1)
    ELSE LET diversity ==
                 Cardinality(UNION {gr[i].relationship_types : i \in 1..Len(gr)})
         IN RatMul(RatAdd(RatMul(Rat(8, 10),
                                 RatDivInt(RatSum([i \in 1..Len(gr) |->
                                                     gr[i].relevance_score]), Len(gr))),
                          RatMul(Rat(2, 10),
                                 IF diversity >= 10 THEN Rat(1, 1) ELSE Rat(diversity, 10))),
                   Rat(7, 10))

\* C13 as stated: the score is 0.3 * vector_component + 0.7 * graph_component.
C13_FusionFormula ==
    fpc = "returned" =>
        RatEq(f_score,
              RatAdd(RatMul(Rat(3, 10), VectorComponent(f_vector_results)),
                     RatMul(Rat(7, 10), GraphComponent(f_graph_results))))

\* C13 amended: the score is vector_component + graph_component, the weights
\* 0.3 and 0.7 being applied once, inside the components, and the sum is cut
\* off at 1.
C13_FusionFormulaAmended ==
    fpc = "returned" =>
        LET total == RatAdd(VectorComponent(f_vector_results),
                            GraphComponent(f_graph_results))
        IN RatEq(f_score, IF RatLeq(total, Rat(1, 1)) THEN total ELSE Rat(1, 1))

\* a call with results of both kinds whose components are positive and sum
\* to less than 1
C13_WitnessBothComponents ==
    /\ fpc = "returned"
    /\ f_vector_results # <<>>
    /\ f_graph_results # <<>>
    /\ ~RatLeq(VectorComponent(f_vector_results), Rat(0, 1))
    /\ ~RatLeq(GraphComponent(f_graph_results), Rat(0, 1))
    /\ ~RatLeq(Rat(1, 1), f_score)

\* ======================================================================
\* Search engine: agents/tools.py (SearchTools), database/milvus_vector.py,
\* database/redis_cache.py, data_ingestion/embedder.py
\* ======================================================================

Words == 1..NumWords

\* a query, as the set of its words; "" is the empty set
Queries == {{}, {1}, Words}

\* the text field of a row, as the set of its words; neither pipeline
\* inserts a row for an empty text (embed_text returns None for it)
HitTexts == {{1}, {2}}

\* hit.distance
HitDistances == {0, 1}

\* what collection.search can find for the query: rows in the engine's order
HitLists ==
    {[i \in 1..Len(h) |-> [id |-> i, distance |-> h[i].distance, text |-> h[i].text]] :
        h \in SeqsOf([distance : HitDistances, text : HitTexts], 0, MaxHits)}

\* the values of top_k a caller of vector_search passes
TopKs == {1, VectorTopK}

\* sha256 of f"{operation}:{query}:{top_k}" behind the prefix "search_results:"
SearchKey(operation, q, k) == <<"search_results", operation, q, k>>

\* RedisManager.get_cached_search_results (get_json): the decoded entry, or
\* None when there is none or Redis cannot be reached
GetCachedSearchResults(store, up, key) ==
    IF up /\ key \in DOMAIN store
    THEN [found |-> TRUE, value |-> JsonLoads(store[key])]
    ELSE [found |-> FALSE, value |-> <<>>]

\* RedisManager.cache_search_results (set_json)
CacheSearchResults(store, up, key, value) == RedisSet(store, up, key, JsonDumps(value))

RECURSIVE QueryText(_)
\* the query string, as the text the embedder is given: one text per word set
QueryText(q) ==
    IF q = {} THEN 0
    ELSE LET w == CHOOSE x \in q : \A y \in q : y <= x
         IN 2 ^ (w - 1) + QueryText(q \ {w})

\* Embedder.embed_text: None for an empty text
EmbedQuery(store, up, q, answer) ==
    IF q = {}
    THEN [embedding |-> NoneValue, store |-> store, remote |-> FALSE]
    ELSE LegacyEmbed(store, up, QueryText(q), answer)

\* "if not query_embedding: return []"
EmbeddingUsable(e) == Truthy(e)

\* MilvusManager.search: the first top_k rows, [] when the manager is not
\* available or collection.search raises
MilvusSearch(mup, ok, hits, k) == IF mup /\ ok THEN FirstN(hits, k) ELSE <<>>

\* "1.0 / (1.0 + hit.distance) if hit.distance > 0 else 1.0"
Similarity(d) == IF d > 0 THEN Rat(1, 1 + d) ELSE Rat(1, 1)

\* _check_query_keywords_in_text
CheckQueryKeywordsInText(q, text) == q \cap text # {}

\* the result record built for each hit
ProcessHits(q, found) ==
    [i \in 1..Len(found) |->
        [id |-> found[i].id,
         distance |-> found[i].distance,
         similarity_score |-> Similarity(found[i].distance),
         text |-> found[i].text,
         has_keywords |-> CheckQueryKeywordsInText(q, found[i].text)]]

RECURSIVE InsertBySimilarity(_, _)
\* r put behind every result whose score is not smaller
InsertBySimilarity(sorted, r) ==
    IF sorted = <<>> THEN <<r>>
    ELSE IF RatLeq(r.similarity_score, Head(sorted).similarity_score)
         THEN <<Head(sorted)>> \o InsertBySimilarity(Tail(sorted), r)
         ELSE <<r>> \o sorted

RECURSIVE SortBySimilarity(_)
\* processed_results.sort(key=similarity_score, reverse=True)
SortBySimilarity(rs) ==
    IF rs = <<>> THEN <<>>
    ELSE InsertBySimilarity(SortBySimilarity(SubSeq(rs, 1, Len(rs) - 1)), rs[Len(rs)])

\* SearchTools.vector_search
VectorSearchOp(q, k, mup, rup, vc, ec, hits, answer, ok) ==
    LET key == SearchKey("vector_search", q, k)
        cached == GetCachedSearchResults(vc, rup, key)
    IN IF ~mup
       THEN [result |-> <<>>, vcache |-> vc, ecache |-> ec,
             trace |-> [NoTrace EXCEPT !.unavailable = TRUE]]
       ELSE IF cached.found /\ cached.value # <<>>
       THEN [result |-> cached.value, vcache |-> vc, ecache |-> ec,
             trace |-> [NoTrace EXCEPT !.served = "vector"]]
       ELSE LET e == EmbedQuery(ec, rup, q, answer) IN
            IF ~EmbeddingUsable(e.embedding)
            THEN [result |-> <<>>, vcache |-> vc, ecache |-> e.store,
                  trace |-> [NoTrace EXCEPT !.embedding_failed = TRUE]]
            ELSE LET found == MilvusSearch(mup, ok, hits, k)
                     processed == SortBySimilarity(ProcessHits(q, found))
                 IN [result |-> processed,
                     vcache |-> CacheSearchResults(vc, rup, key, processed),
                     ecache |-> e.store,
                     trace |-> [NoTrace EXCEPT !.zero_hits = (found = <<>>)]]

\* the replacement fields str.format finds in ENTITY_EXTRACTION_PROMPT: the
\* braces of the JSON example open a field of their own
EntityExtractionPromptFields == {"\n  \"entities\"", "text"}

\* _extract_entities_from_text: the prompt is formatted outside the try
ExtractEntities(text, llm) ==
    IF text = {} THEN [raised |-> FALSE, entities |-> {}]
    ELSE IF PromptFormatRaises(EntityExtractionPromptFields)
         THEN [raised |-> TRUE, entities |-> {}]
         ELSE [raised |-> FALSE, entities |-> llm]

\* SearchTools.graph_search: self.neo4j_manager.query is no method of
\* Neo4jManager, the AttributeError is caught and [] returned
GraphSearch(entities, rows) ==
    IF entities = {} THEN <<>>
    ELSE IF "query" \notin Neo4jManagerMethods THEN <<>>
    ELSE rows

\* len(term.strip()) of a word of the query: word 1 is a short one
WordLength(w) == w + 1

\* "term.strip() for term in query.split() if len(term.strip()) > 2"
QueryTerms(q) == {w \in q : WordLength(w) > MinTermLength}

EmptyHybridResultScored ==
    [vector_results |-> <<>>, graph_results |-> <<>>, fusion_score |-> Rat(1, 1),
     keys |-> "basic"]

\* empty_result of hybrid_search
EmptyHybridResult ==
    [vector_results |-> <<>>, graph_results |-> <<>>, fusion_score |-> Rat(0, 1),
     keys |-> "basic"]

\* SearchTools.hybrid_search
HybridSearchOp(q, k, mup, rup, vc, hc, ec, hits, answer, ok, llm, rows) ==
    LET key == SearchKey("hybrid_search", q, k)
        cached == GetCachedSearchResults(hc, rup, key)
    IN IF cached.found
       THEN [raised |-> FALSE, result |-> cached.value, vcache |-> vc, hcache |-> hc,
             ecache |-> ec, trace |-> [NoTrace EXCEPT !.served = "hybrid"]]
       ELSE LET v == VectorSearchOp(q, k, mup, rup, vc, ec, hits, answer, ok) IN
            IF v.result = <<>>
            THEN [raised |-> FALSE, result |-> EmptyHybridResult, vcache |-> v.vcache,
                  hcache |-> CacheSearchResults(hc, rup, key, EmptyHybridResult),
                  ecache |-> v.ecache, trace |-> v.trace]
            ELSE LET top == FirstN(v.result, 3)
                     ex == [i \in 1..Len(top) |-> ExtractEntities(top[i].text, llm)]
                 IN IF \E i \in 1..Len(top) : ex[i].raised
                    THEN [raised |-> TRUE, result |-> NoHybridResult,
                          vcache |-> v.vcache, hcache |-> hc, ecache |-> v.ecache,
                          trace |-> [v.trace EXCEPT !.vector_hits = Len(v.result)]]
                    ELSE LET entities == UNION {ex[i].entities : i \in 1..Len(top)}
                             seeds == IF entities # {} THEN entities ELSE QueryTerms(q)
                             depth == IF entities # {} THEN EntityDepth
                                      ELSE FallbackDepth
                             gr == GraphSearch(seeds, rows)
                             enhanced ==
                                 [vector_results |-> v.result,
                                  graph_results |-> gr,
                                  fusion_score |-> CalculateFusionScore(v.result, gr),
                                  keys |-> "enhanced"]
                         IN [raised |-> FALSE, result |-> enhanced,
                             vcache |-> v.vcache,
                             hcache |-> CacheSearchResults(hc, rup, key, enhanced),
                             ecache |-> v.ecache,
                             trace |-> [v.trace EXCEPT !.vector_hits = Len(v.result),
                                                       !.graph_seeds = seeds,
                                                       !.graph_depth = depth,
                                                       !.fallback = (entities = {})]]

\* the answers of the services a call depends on
ProviderAnswers == {"ok", "error"}
LlmEntities == {{}, {1}}
GraphRows == {<<>>, <<[relevance_score |-> Rat(1, 2), relationship_types |-> {1}]>>}

InitSearch ==
    /\ ChunkerIdle /\ EmbedderIdle /\ LegacyIdle /\ FusionIdle /\ AdapterIdle /\ FilterIdle /\ KeysIdle /\ SplitIdle
    /\ s_query \in Queries
    /\ s_milvus_up \in BOOLEAN
    /\ s_hits \in HitLists
    /\ s_redis_up \in BOOLEAN
    /\ s_vcache = <<>>
    /\ s_hcache = <<>>
    /\ s_ecache = <<>>
    /\ s_op = "none"
    /\ s_top_k = 0
    /\ s_raised = FALSE
    /\ s_vresult = <<>>
    /\ s_hresult = NoHybridResult
    /\ s_trace = NoTrace
    /\ s_calls = 0
    /\ s_changes = 0
    /\ s_reconnects = 0

\* a call of vector_search
VectorSearch ==
    /\ s_calls < MaxSearchCalls
    /\ \E k \in TopKs, answer \in ProviderAnswers, ok \in BOOLEAN :
          LET r == VectorSearchOp(s_query, k, s_milvus_up, s_redis_up, s_vcache,
                                  s_ecache, s_hits, answer, ok)
          IN /\ s_vresult' = r.result
             /\ s_vcache' = r.vcache
             /\ s_ecache' = r.ecache
             /\ s_trace' = r.trace
             /\ s_top_k' = k
    /\ s_op' = "vector_search"
    /\ s_raised' = FALSE
    /\ s_calls' = s_calls + 1
    /\ UNCHANGED <<s_query, s_milvus_up, s_hits, s_redis_up, s_hcache, s_hresult,
                   s_changes, s_reconnects>>
    /\ UNCHANGED outsideSearch

\* a call of hybrid_search
HybridSearch ==
    /\ s_calls < MaxSearchCalls
    /\ \E answer \in ProviderAnswers, ok \in BOOLEAN, llm \in LlmEntities,
          rows \in GraphRows :
          LET r == HybridSearchOp(s_query, HybridTopK, s_milvus_up, s_redis_up,
                                  s_vcache, s_hcache, s_ecache, s_hits, answer, ok,
                                  llm, rows)
          IN /\ s_hresult' = r.result
             /\ s_raised' = r.raised
             /\ s_vcache' = r.vcache
             /\ s_hcache' = r.hcache
             /\ s_ecache' = r.ecache
             /\ s_trace' = r.trace
    /\ s_op' = "hybrid_search"
    /\ s_top_k' = HybridTopK
    /\ s_calls' = s_calls + 1
    /\ UNCHANGED <<s_query, s_milvus_up, s_hits, s_redis_up, s_vresult, s_changes,
                   s_reconnects>>
    /\ UNCHANGED outsideSearch

\* the collection is dropped, or ingested again with one more row for the
\* query
IndexChanges ==
    /\ s_changes < MaxIndexChanges
    /\ s_hits' \in {h \in HitLists \ {s_hits} :
                       h = <<>> \/ SubSeq(h, 1, Len(h) - 1) = s_hits}
    /\ s_changes' = s_changes + 1
    /\ s_op' = "none"
    /\ s_trace' = NoTrace
    /\ UNCHANGED <<s_query, s_milvus_up, s_redis_up, s_vcache, s_hcache, s_ecache,
                   s_top_k, s_raised, s_vresult, s_hresult, s_calls, s_reconnects>>
    /\ UNCHANGED outsideSearch

\* SearchTools is constructed again: MilvusManager() connects, or does not
Reconnect ==
    /\ s_reconnects < MaxReconnects
    /\ s_milvus_up' = ~s_milvus_up
    /\ s_reconnects' = s_reconnects + 1
    /\ s_op' = "none"
    /\ s_trace' = NoTrace
    /\ UNCHANGED <<s_query, s_hits, s_redis_up, s_vcache, s_hcache, s_ecache,
                   s_top_k, s_raised, s_vresult, s_hresult, s_calls, s_changes>>
    /\ UNCHANGED outsideSearch

NextSearch == VectorSearch \/ HybridSearch \/ IndexChanges \/ Reconnect

SpecSearch == InitSearch /\ [][NextSearch]_vars

\* ======================================================================
\* Properties of the search engine
\* ======================================================================

\* the empty outcome of hybrid_search
HybridEmpty ==
    /\ ~s_raised
    /\ s_hresult.vector_results = <<>>
    /\ s_hresult.graph_results = <<>>
    /\ RatEq(s_hresult.fusion_score, Rat(0, 1))

\* C11: a hybrid_search call made while the vector store is unavailable, or
\* in which the query embedding comes back empty, or in which the engine
\* returns no hit, raises no exception and returns empty vector and graph
\* result lists with a fusion score of 0.
C11_EmptyOnFailure ==
    (/\ s_op = "hybrid_search"
     /\ \/ ~s_milvus_up
        \/ s_trace.unavailable
        \/ s_trace.embedding_failed
        \/ s_trace.zero_hits) => HybridEmpty

\* C11: hybrid_search ran while the provider failed for the query embedding
\* although the store is up and has rows for the query
C11_WitnessEmbeddingFailed ==
    /\ s_op = "hybrid_search"
    /\ s_trace.embedding_failed
    /\ s_query # {}
    /\ s_hits # <<>>
    /\ s_milvus_up

\* what a vector_search without its cache entry can return now
VectorRecomputed ==
    {VectorSearchOp(s_query, s_top_k, s_milvus_up, s_redis_up, <<>>, s_ecache,
                    s_hits, answer, ok).result :
        answer \in ProviderAnswers, ok \in BOOLEAN}

\* what a hybrid_search without its cache entry can return now
HybridRecomputed ==
    {HybridSearchOp(s_query, s_top_k, s_milvus_up, s_redis_up, s_vcache, <<>>,
                    s_ecache, s_hits, answer, ok, llm, rows) :
        answer \in ProviderAnswers, ok \in BOOLEAN, llm \in LlmEntities,
        rows \in GraphRows}

\* C14: a result served from a cache entry is one that the same call would
\* return without the entry, in the state in which it is served.
C14_CacheTransparent ==
    /\ (s_op = "vector_search" /\ s_trace.served = "vector") =>
          s_vresult \in VectorRecomputed
    /\ (s_op = "hybrid_search" /\ s_trace.served = "hybrid") =>
          \E h \in HybridRecomputed : ~h.raised /\ h.result = s_hresult

\* ======================================================================
\* Properties of the legacy run: setup, graph data, cleanup
\* ======================================================================

\* C15: a chunk whose graph extraction failed or gave a malformed structure
\* has no graph write and is recorded as a graph-build error, and a chunk
\* with a valid extraction has its graph written whether or not its
\* embedding succeeded.
C15_GraphErrorsRecorded ==
    \A k \in 1..Len(lg_graph_log) :
        LET g == lg_graph_log[k] IN
        /\ g.extraction # "graph" => (~g.written /\ g.recorded)
        /\ g.extraction = "graph" => g.written

\* setup_databases has run and did not ensure the collection or the
\* constraints
SetupFailed == lg_setup.done /\ (~lg_setup.collection \/ ~lg_setup.constraints)

\* C16: when setup has failed, no chunk is batched, embedded or handed to a
\* store.
C16_SetupFailureFatal ==
    SetupFailed =>
        /\ chunk_batch = <<>>
        /\ batch_calls = <<>>
        /\ lg_embeddings = <<>>
        /\ insert_calls = <<>>

\* C17: when main() has finished, however run_ingestion ended, no store
\* connection the process opened is still open.
C17_CleanupOnEveryExit ==
    lpc = "finished" => (lg_conn.milvus # "open" /\ lg_conn.neo4j # "open")

\* ======================================================================
\* Properties of the optimized run: failures and phase order
\* ======================================================================

\* the positions of a step in the run
Positions(step) == {i \in 1..Len(p_events) : p_events[i] = step}

\* the steps that segment, embed or store chunks
DataSteps == {"load", "chunk", "embed", "batch", "graph"}

\* C18: a failed insert of a batch does not end the run: run_full_pipeline
\* never ends by raising out of the vector storage stage.
C18_InsertFailureNotFatal == ppc # "raised"

\* C19: the collection is ensured before any data step, the flush comes
\* after every batch, and a connection is closed only after a flush.
C19_PhaseOrder ==
    /\ \A i \in Positions("setup") :
          \A j \in 1..(i - 1) : p_events[j] \notin DataSteps
    /\ \A i \in Positions("flush") : \A j \in Positions("batch") : j < i
    /\ \A i \in Positions("close") : \E j \in Positions("flush") : j < i

\* ======================================================================
\* Store adapters: database/milvus_vector.py (MilvusManager),
\* database/neo4j_graph.py (Neo4jManager), SearchTools.graph_search
\* ======================================================================

\* MilvusManager.create_collection: False when the manager is not available,
\* False from the handler when the engine raises, else True
MilvusCreateCollection(up, raises) ==
    IF ~up THEN AdapterResult("False", 0)
    ELSE IF raises THEN AdapterResult("False", 0)
    ELSE AdapterResult("True", 0)

\* MilvusManager.insert_batch
MilvusInsertBatch(up, raises) ==
    IF ~up THEN AdapterResult("False", 0)
    ELSE IF raises THEN AdapterResult("False", 0)
    ELSE AdapterResult("True", 0)

\* MilvusManager.flush
MilvusFlush(up, raises) ==
    IF ~up THEN AdapterResult("False", 0)
    ELSE IF raises THEN AdapterResult("False", 0)
    ELSE AdapterResult("True", 0)

\* MilvusManager.search: [] when the manager is not available or the engine
\* raises, else the rows found
MilvusManagerSearch(up, raises, found) ==
    IF ~up THEN AdapterResult("list", 0)
    ELSE IF raises THEN AdapterResult("list", 0)
    ELSE AdapterResult("list", found)

\* Neo4jManager.execute_query: None when there is no driver, None from the
\* handler when the query raises, else result.data()
Neo4jExecuteQuery(up, raises, found) ==
    IF ~up THEN AdapterResult("None", 0)
    ELSE IF raises THEN AdapterResult("None", 0)
    ELSE AdapterResult("list", found)

\* the operations that read and those that write
AdapterReads == {"search", "find_nodes", "graph_search"}
AdapterWrites == {"create_collection", "insert_batch", "flush", "create_node"}

\* the service an operation talks to is reachable
ServiceUp(op) ==
    IF op \in {"find_nodes", "create_node", "graph_search"} THEN a_neo4j_up
    ELSE a_milvus_up

\* what an operation returns when its service is reachable and the engine
\* raises inside it
ResultOnEngineError(op) ==
    CASE op = "create_collection" -> MilvusCreateCollection(TRUE, TRUE)
      [] op = "insert_batch" -> MilvusInsertBatch(TRUE, TRUE)
      [] op = "flush" -> MilvusFlush(TRUE, TRUE)
      [] op = "search" -> MilvusManagerSearch(TRUE, TRUE, 0)
      [] op \in {"create_node", "find_nodes"} -> Neo4jExecuteQuery(TRUE, TRUE, 0)
      [] OTHER -> AdapterResult("list", 0)

InitAdapter ==
    /\ ChunkerIdle /\ EmbedderIdle /\ LegacyIdle /\ FusionIdle /\ SearchIdle
    /\ FilterIdle /\ KeysIdle /\ SplitIdle
    /\ a_milvus_up \in BOOLEAN
    /\ a_neo4j_up \in BOOLEAN
    /\ a_collection \in BOOLEAN
    /\ a_rows = 0
    /\ a_flushed = 0
    /\ a_nodes = 0
    /\ a_op = "none"
    /\ a_result = AdapterResult("None", 0)
    /\ a_raised = FALSE
    /\ a_calls = 0

\* the engine can raise only when it is reached; a collection that does not
\* exist makes Collection(name) raise
MilvusRaises(raises, needs_collection) ==
    IF ~a_milvus_up THEN FALSE
    ELSE raises \/ (needs_collection /\ ~a_collection)

AdapterCreateCollection ==
    /\ a_calls < MaxAdapterCalls
    /\ \E raises \in BOOLEAN :
          LET r == MilvusCreateCollection(a_milvus_up, MilvusRaises(raises, FALSE)) IN
          /\ a_result' = r
          /\ a_raised' = MilvusRaises(raises, FALSE)
          /\ a_collection' = (a_collection \/ r.value = "True")
    /\ a_op' = "create_collection"
    /\ a_calls' = a_calls + 1
    /\ UNCHANGED <<a_milvus_up, a_neo4j_up, a_rows, a_flushed, a_nodes>>
    /\ UNCHANGED outsideAdapter

AdapterInsertBatch ==
    /\ a_calls < MaxAdapterCalls
    /\ a_rows < MaxAdapterRows
    /\ \E raises \in BOOLEAN :
          LET r == MilvusInsertBatch(a_milvus_up, MilvusRaises(raises, TRUE)) IN
          /\ a_result' = r
          /\ a_raised' = MilvusRaises(raises, TRUE)
          /\ a_rows' = IF r.value = "True" THEN a_rows + 1 ELSE a_rows
    /\ a_op' = "insert_batch"
    /\ a_calls' = a_calls + 1
    /\ UNCHANGED <<a_milvus_up, a_neo4j_up, a_collection, a_flushed, a_nodes>>
    /\ UNCHANGED outsideAdapter

AdapterFlush ==
    /\ a_calls < MaxAdapterCalls
    /\ \E raises \in BOOLEAN :
          LET r == MilvusFlush(a_milvus_up, MilvusRaises(raises, TRUE)) IN
          /\ a_result' = r
          /\ a_raised' = MilvusRaises(raises, TRUE)
          /\ a_flushed' = IF r.value = "True" THEN a_rows ELSE a_flushed
    /\ a_op' = "flush"
    /\ a_calls' = a_calls + 1
    /\ UNCHANGED <<a_milvus_up, a_neo4j_up, a_collection, a_rows, a_nodes>>
    /\ UNCHANGED outsideAdapter

AdapterSearch ==
    /\ a_calls < MaxAdapterCalls
    /\ \E raises \in BOOLEAN :
          /\ a_result' = MilvusManagerSearch(a_milvus_up, MilvusRaises(raises, TRUE),
                                             a_rows)
          /\ a_raised' = MilvusRaises(raises, TRUE)
    /\ a_op' = "search"
    /\ a_calls' = a_calls + 1
    /\ UNCHANGED <<a_milvus_up, a_neo4j_up, a_collection, a_rows, a_flushed, a_nodes>>
    /\ UNCHANGED outsideAdapter

\* Neo4jManager.create_node: execute_query of a CREATE
AdapterCreateNode ==
    /\ a_calls < MaxAdapterCalls
    /\ a_nodes < MaxAdapterRows
    /\ \E raises \in BOOLEAN :
          LET r == Neo4jExecuteQuery(a_neo4j_up, a_neo4j_up /\ raises, 1) IN
          /\ a_result' = r
          /\ a_raised' = (a_neo4j_up /\ raises)
          /\ a_nodes' = IF r.value = "list" THEN a_nodes + 1 ELSE a_nodes
    /\ a_op' = "create_node"
    /\ a_calls' = a_calls + 1
    /\ UNCHANGED <<a_milvus_up, a_neo4j_up, a_collection, a_rows, a_flushed>>
    /\ UNCHANGED outsideAdapter

\* Neo4jManager.find_nodes: execute_query of a MATCH
AdapterFindNodes ==
    /\ a_calls < MaxAdapterCalls
    /\ \E raises \in BOOLEAN :
          /\ a_result' = Neo4jExecuteQuery(a_neo4j_up, a_neo4j_up /\ raises, a_nodes)
          /\ a_raised' = (a_neo4j_up /\ raises)
    /\ a_op' = "find_nodes"
    /\ a_calls' = a_calls + 1
    /\ UNCHANGED <<a_milvus_up, a_neo4j_up, a_collection, a_rows, a_flushed, a_nodes>>
    /\ UNCHANGED outsideAdapter

\* SearchTools.graph_search for one entity
AdapterGraphSearch ==
    /\ a_calls < MaxAdapterCalls
    /\ a_result' = AdapterResult("list",
                        Len(GraphSearch({1}, [i \in 1..a_nodes |-> i])))
    /\ a_raised' = FALSE
    /\ a_op' = "graph_search"
    /\ a_calls' = a_calls + 1
    /\ UNCHANGED <<a_milvus_up, a_neo4j_up, a_collection, a_rows, a_flushed, a_nodes>>
    /\ UNCHANGED outsideAdapter

NextAdapter ==
    \/ AdapterCreateCollection
    \/ AdapterInsertBatch
    \/ AdapterFlush
    \/ AdapterSearch
    \/ AdapterCreateNode
    \/ AdapterFindNodes
    \/ AdapterGraphSearch

SpecAdapter == InitAdapter /\ [][NextAdapter]_vars

\* ======================================================================
\* Properties of the store adapters
\* ======================================================================

\* C20: with its service unreachable, a read returns an empty list, and a
\* write returns an outcome that differs from the one it returns when the
\* service is reached and the engine fails.
C20_UnavailableDistinguishable ==
    (a_op # "none" /\ ~ServiceUp(a_op)) =>
        /\ a_op \in AdapterReads => a_result = AdapterResult("list", 0)
        /\ a_op \in AdapterWrites => a_result # ResultOnEngineError(a_op)

\* ======================================================================
\* Properties of the extraction calls
\* ======================================================================

\* C21: whatever the extraction provider answers, entity extraction raises
\* nothing out of hybrid_search, and graph extraction returns a structure,
\* never an exception.
C21_ExtractionNeverRaises ==
    /\ s_op = "hybrid_search" => ~s_raised
    /\ \A k \in 1..Len(lg_graph_log) : lg_graph_log[k].extraction # "exception"

\* the chunks of the corpus in the order of run_ingestion
LegacyChunkOrder ==
    Flatten([j \in 1..Len(lg_corpus) |->
        [i \in 1..lg_corpus[j].n_chunks |->
            LegacyChunkId(lg_corpus[j].book, lg_corpus[j].chapter, i - 1)]])

\* the chunks handed to _process_chunk_batch so far, in the order of the calls
LegacyHanded ==
    LET all == Flatten(batch_calls) IN [k \in 1..Len(all) |-> all[k].chunk_id]

\* run_ingestion has left the chapter loop
LegacyLoopDone == lpc \in {"returned", "completed", "raised", "finished"}

\* C26: every batch handed to _process_chunk_batch holds between one and ten
\* chunks, all of one chapter; the batches taken together are the chunks of
\* the corpus in their order, each once.
C26_BatchesPartitionChapters ==
    /\ \A b \in 1..Len(batch_calls) :
          /\ Len(batch_calls[b]) \in 1..LegacyBatchSize
          /\ \A x, y \in 1..Len(batch_calls[b]) :
                /\ batch_calls[b][x].book = batch_calls[b][y].book
                /\ batch_calls[b][x].chapter = batch_calls[b][y].chapter
    /\ Len(LegacyHanded) <= Len(LegacyChunkOrder)
    /\ LegacyHanded = SubSeq(LegacyChunkOrder, 1, Len(LegacyHanded))
    /\ (LegacyLoopDone /\ lg_setup.done) => LegacyHanded = LegacyChunkOrder

\* C26 witness: a chapter of more than ten chunks, followed by another
\* chapter, has been ingested
C26_WitnessLongChapter ==
    /\ lpc = "finished"
    /\ Len(lg_corpus) = 2
    /\ lg_corpus[1].n_chunks > LegacyBatchSize
    /\ Len(batch_calls) = 3
    /\ Len(batch_calls[1]) = LegacyBatchSize

\* C27: a result with success = true carries a non-empty vector; a chunk whose
\* provider request failed has no success result, is not counted in
\* successful_embeddings and gets no embedding attached.
C27_SuccessHasVector ==
    Returned =>
        /\ \A i \in 1..Len(all_results) :
              /\ all_results[i].success => Truthy(all_results[i].embedding)
              /\ outcome[i] = "error" =>
                    (~all_results[i].success /\ ~Truthy(in_chunks[i].embedding))
        /\ metrics.successful_embeddings <=
              Cardinality({i \in 1..Len(in_chunks) : outcome[i] # "error"})

\* C28: when a chapter has been chunked, each of its verses lies in the verse
\* range of an emitted chunk, and the chunks are in non-decreasing order of
\* start_verse.
C28_NoVerseLost ==
    ChapterDone =>
        /\ \A v \in 1..Len(corpus[ci].verses) :
              \E k \in 1..Len(chunks) :
                  chunks[k].start_verse <= v /\ v <= chunks[k].end_verse
        /\ \A k \in 1..(Len(chunks) - 1) :
              chunks[k].start_verse <= chunks[k + 1].start_verse

\* the last chunk of the chapter has absorbed the remaining verses
MergedTrailing ==
    /\ ChapterDone
    /\ chunks # <<>>
    /\ Len(chunks[Len(chunks)].content) > Len(chunks[Len(chunks)].verses_included)

\* C28 witness: a chapter of several chunks whose last chunk absorbed the
\* remaining verses
C28_WitnessMergedChapter == MergedTrailing /\ Len(chunks) >= 2

\* occurrences of verse v in the content of a chunk
Occurrences(ch, v) == Cardinality({k \in 1..Len(ch.content) : ch.content[k] = v})

\* C29: the content of every emitted chunk holds each verse of
\* start_verse..end_verse once and no other verse, and chunk_size,
\* passage_reference, verses_included and verse_count agree with word_count,
\* start_verse and end_verse.
C29_ChunkConsistent ==
    ChapterDone =>
        \A k \in 1..Len(chunks) :
            LET ch == chunks[k] IN
            /\ \A v \in 1..Len(corpus[ci].verses) :
                  Occurrences(ch, v) =
                      (IF ch.start_verse <= v /\ v <= ch.end_verse THEN 1 ELSE 0)
            /\ ch.chunk_size = ch.word_count
            /\ ch.passage_reference =
                  PassageReference(ch.book, ch.chapter, ch.start_verse, ch.end_verse)
            /\ ch.verses_included =
                  [j \in 1..(ch.end_verse - ch.start_verse + 1) |-> ch.start_verse + j - 1]
            /\ ch.verse_count = ch.end_verse - ch.start_verse + 1

\* C23: a hybrid_search that has a vector hit traverses the graph to depth 2,
\* and from the query terms longer than two characters when no entity was
\* extracted.
C23_FallbackSeedsAndDepth ==
    (s_op = "hybrid_search" /\ s_trace.served # "hybrid" /\ s_trace.vector_hits >= 1) =>
        /\ s_trace.graph_depth = EntityDepth
        /\ s_trace.fallback => s_trace.graph_seeds = QueryTerms(s_query)

\* one embed_chunks_batch over a small corpus
InitRetry ==
    /\ ChunkerIdle /\ LegacyIdle /\ FusionIdle /\ SearchIdle /\ AdapterIdle
    /\ FilterIdle /\ KeysIdle /\ SplitIdle
    /\ PipelineStart(MaxRetryChunks, 1)

\* the event loop runs every task that can take a step
SpecRetryFair == InitRetry /\ [][NextEmbed]_vars /\ WF_vars(NextEmbed)

\* the attempts of every batch task stay within retry_attempts, the delays
\* slept are retry_delay * 2^attempt, one between two consecutive attempts
RetryWithinBounds ==
    \A b \in 1..Len(tries) :
        /\ tries[b] <= emb_cfg.retry_attempts
        /\ Len(sleeps[b]) = (IF tries[b] = 0 THEN 0 ELSE tries[b] - 1)
        /\ \A k \in 1..Len(sleeps[b]) : sleeps[b][k] = 2 ^ (k - 1)

FilterFields == {"book", "chapter"}
FieldValues == 1..MaxFieldValue

\* the rows of a collection, by the fields a filter can name
AllRows == [book : FieldValues, chapter : FieldValues]

\* the values a caller can give for a field: a string or number, a list, a
\* dict with a range key, a dict with another key, None
\* (vs holds the scalar, the elements of the list, or the bound of the dict)
ConditionValues ==
    [kind : {"scalar"}, key : {""}, vs : {{x} : x \in FieldValues}]
    \cup [kind : {"list"}, key : {""}, vs : {{1}, FieldValues}]
    \cup [kind : {"dict"}, key : {"gte", "lte", "ne"}, vs : {{MaxFieldValue}}]
    \cup [kind : {"none"}, key : {""}, vs : {{}}]

\* filter_conditions: a dict, so no field occurs twice
FilterConditionLists ==
    {c \in SeqsOf([field : FilterFields, value : ConditionValues], 0, MaxConditions) :
        \A i, j \in 1..Len(c) : i # j => c[i].field # c[j].field}

\* the expressions _build_filter_expression appends for one condition: a
\* value of another type, and a dict without gte, lte, gt or lt, add none
ConditionExpressions(c) ==
    CASE c.value.kind = "scalar" -> <<[field |-> c.field, op |-> "==", vs |-> c.value.vs]>>
      [] c.value.kind = "list" -> <<[field |-> c.field, op |-> "in", vs |-> c.value.vs]>>
      [] c.value.kind = "dict" /\ c.value.key = "gte" ->
            <<[field |-> c.field, op |-> ">=", vs |-> c.value.vs]>>
      [] c.value.kind = "dict" /\ c.value.key = "lte" ->
            <<[field |-> c.field, op |-> "<=", vs |-> c.value.vs]>>
      [] OTHER -> <<>>

\* _build_filter_expression: the expressions joined by " and ", None (the
\* empty sequence) when there is none
BuildFilterExpression(conds) ==
    Flatten([i \in 1..Len(conds) |-> ConditionExpressions(conds[i])])

\* a row satisfies one expression
RowSatisfies(row, e) ==
    CASE e.op \in {"==", "in"} -> row[e.field] \in e.vs
      [] e.op = ">=" -> \A b \in e.vs : row[e.field] >= b
      [] OTHER -> \A b \in e.vs : row[e.field] <= b

\* the rows the engine selects for an expression; all rows for None
RowsMatching(rows, expr) ==
    {r \in rows : \A i \in 1..Len(expr) : RowSatisfies(r, expr[i])}

InitFilter ==
    /\ ChunkerIdle /\ EmbedderIdle /\ LegacyIdle /\ FusionIdle /\ SearchIdle
    /\ AdapterIdle /\ KeysIdle /\ SplitIdle
    /\ fl_conditions \in FilterConditionLists
    /\ fl_rows = AllRows
    /\ fl_op = "none"
    /\ fl_expr = <<>>
    /\ fl_result = [ok |-> TRUE, rows |-> {}]
    /\ fl_calls = 0

\* OptimizedMilvusManager.hybrid_search: the hits for the expression, [] when
\* the engine raises
FilterSearch ==
    /\ fl_calls < MaxFilterCalls
    /\ LET expr == BuildFilterExpression(fl_conditions) IN
       /\ fl_expr' = expr
       /\ \E raises \in BOOLEAN :
             fl_result' = [ok |-> TRUE,
                           rows |-> IF raises THEN {} ELSE RowsMatching(fl_rows, expr)]
    /\ fl_op' = "hybrid_search"
    /\ fl_calls' = fl_calls + 1
    /\ UNCHANGED <<fl_conditions, fl_rows>>
    /\ UNCHANGED outsideFilter

\* OptimizedMilvusManager.delete_by_filter: False when no expression is left
\* or the engine raises, else the rows matching the expression are deleted
FilterDelete ==
    /\ fl_calls < MaxFilterCalls
    /\ LET expr == BuildFilterExpression(fl_conditions) IN
       /\ fl_expr' = expr
       /\ \E raises \in BOOLEAN :
             IF expr = <<>> \/ raises
             THEN /\ fl_result' = [ok |-> FALSE, rows |-> {}]
                  /\ fl_rows' = fl_rows
             ELSE /\ fl_result' = [ok |-> TRUE, rows |-> RowsMatching(fl_rows, expr)]
                  /\ fl_rows' = fl_rows \ RowsMatching(fl_rows, expr)
    /\ fl_op' = "delete_by_filter"
    /\ fl_calls' = fl_calls + 1
    /\ UNCHANGED fl_conditions
    /\ UNCHANGED outsideFilter

NextFilter == FilterSearch \/ FilterDelete

SpecFilter == InitFilter /\ [][NextFilter]_vars

\* conditions that _build_filter_expression has no expression for
Untranslated ==
    {i \in 1..Len(fl_conditions) : ConditionExpressions(fl_conditions[i]) = <<>>}

\* C22: a search or delete whose filter holds a condition the adapter cannot
\* translate reports an error and selects no row.
C22_UnsupportedFilterReported ==
    (fl_op # "none" /\ Untranslated # {}) =>
        (~fl_result.ok /\ fl_result.rows = {})

\* ======================================================================
\* Embedding cache keys: data_ingestion/embedder.py (Embedder.embed_text),
\* data_ingestion/optimized_embedder.py (_generate_cache_key)
\* ======================================================================

\* ModelProvider: the values of the enum
Providers == {"openai", "xai", "anthropic"}

\* the characters of a model id or a text: a letter and the colon
KeyChars == {"a", ":"}

\* model ids and texts: non-empty strings
KeyStrings == SeqsOf(KeyChars, 1, MaxKeyLen)

\* f"{self.config.provider.value}:{self.config.model}:{text}"
KeyData(provider, model, text) == <<provider>> \o <<":">> \o model \o <<":">> \o text

\* OptimizedEmbedder._generate_cache_key: "embedding:" and the md5 digest of
\* key_data (one digest per key_data)
OptimizedCacheKey(provider, model, text) ==
    <<"embedding", "md5">> \o KeyData(provider, model, text)

\* Embedder.embed_text: f"embedding:{hash(text)}" (one hash per text)
EmbedderCacheKey(provider, model, text) == <<"embedding", "hash">> \o text

\* one more user of a cache entry
KeyUsed(users, key, provider, model) ==
    LET u == [provider |-> provider, model |-> model] IN
    [k \in DOMAIN users \cup {key} |->
        IF k \in DOMAIN users
        THEN (IF k = key THEN users[k] \cup {u} ELSE users[k])
        ELSE {u}]

\* ai_integration_client.get_embedding: a vector from OpenAI, [] for another
\* provider and for a failed request
ProviderEmbeds(provider, answer) == provider = "openai" /\ answer = "ok"

InitKeys ==
    /\ ChunkerIdle /\ EmbedderIdle /\ LegacyIdle /\ FusionIdle /\ SearchIdle
    /\ AdapterIdle /\ FilterIdle /\ SplitIdle
    /\ k_users = <<>>
    /\ k_last = NoKeyRequest
    /\ k_calls = 0

\* Embedder(provider, model).embed_text(text): the cached vector when the key
\* has one, else the vector of the provider, cached when it is not empty
EmbedderEmbedText ==
    /\ k_calls < MaxKeyCalls
    /\ \E provider \in Providers, model \in KeyStrings, text \in KeyStrings,
          up \in BOOLEAN, answer \in ProviderAnswers :
          LET key == EmbedderCacheKey(provider, model, text)
              hit == up /\ key \in DOMAIN k_users
              stored == ~hit /\ up /\ ProviderEmbeds(provider, answer)
          IN /\ k_users' = IF hit \/ stored
                           THEN KeyUsed(k_users, key, provider, model)
                           ELSE k_users
             /\ k_last' = [client |-> "Embedder", provider |-> provider,
                           model |-> model, text |-> text, key |-> key, hit |-> hit]
    /\ k_calls' = k_calls + 1
    /\ UNCHANGED outsideKeys

\* OptimizedEmbedder(config).embed_chunks_batch of one chunk with caching on:
\* the lookup by mget fails (RedisManager has no mget), every embedding that
\* is not None is stored under the key of the text
OptimizedEmbedChunk ==
    /\ k_calls < MaxKeyCalls
    /\ \E provider \in Providers, model \in KeyStrings, text \in KeyStrings,
          up \in BOOLEAN :
          LET key == OptimizedCacheKey(provider, model, text)
              hit == up /\ "mget" \in RedisManagerMethods /\ key \in DOMAIN k_users
          IN /\ k_users' = IF up THEN KeyUsed(k_users, key, provider, model)
                           ELSE k_users
             /\ k_last' = [client |-> "OptimizedEmbedder", provider |-> provider,
                           model |-> model, text |-> text, key |-> key, hit |-> hit]
    /\ k_calls' = k_calls + 1
    /\ UNCHANGED outsideKeys

NextKeys == EmbedderEmbedText \/ OptimizedEmbedChunk

SpecKeys == InitKeys /\ [][NextKeys]_vars

\* C25: the requests that use one cache entry all have the same provider and
\* the same model, in the Embedder and in the OptimizedEmbedder.
C25_KeySeparatesModels ==
    \A k \in DOMAIN k_users :
        \A u, v \in k_users[k] : u.provider = v.provider /\ u.model = v.model

\* ======================================================================
\* Fallback splitting: ingestion/chunker.py (SemanticChunker._simple_split)
\* ======================================================================

\* ChunkingConfig as __post_init__ accepts it: chunk_overlap < chunk_size and
\* min_chunk_size > 0
SplitConfigs ==
    {c \in [chunk_size : 1..MaxSplitSize,
            chunk_overlap : 0..MaxSplitSize,
            min_chunk_size : 1..MaxSplitMin] :
        c.chunk_overlap < c.chunk_size}

\* a text: for each character, whether it is one of ".!?\n"
SplitTexts == SeqsOf(BOOLEAN, 0, MaxTextLen)

\* text[i] exists: 0 <= i < len(text), or a negative index from the end
IndexValid(text, i) == -Len(text) <= i /\ i < Len(text)

\* text[i] in ".!?\n"
IsSentenceEnd(text, i) ==
    IF i >= 0 THEN text[i + 1] ELSE text[Len(text) + i + 1]

\* range(end, max(start + min_chunk_size, end - 200), -1)
ScanRange(cfg, start, end) ==
    (Max2(start + cfg.min_chunk_size, end - SentenceWindow) + 1)..end

\* one pass of the body of "while start < len(text)" below the test for the
\* last chunk: the end of the chunk, or IndexError
ChunkEnd(text, cfg, start) ==
    LET end == start + cfg.chunk_size
        scan == ScanRange(cfg, start, end)
        found == {i \in scan : IndexValid(text, i) /\ IsSentenceEnd(text, i)}
        top == CHOOSE i \in found : \A j \in found : j <= i
    IN IF found # {}
       THEN IF \E i \in scan : i > top /\ ~IndexValid(text, i)
            THEN [raised |-> TRUE, chunk_end |-> end]
            ELSE [raised |-> FALSE, chunk_end |-> top + 1]
       ELSE IF \E i \in scan : ~IndexValid(text, i)
            THEN [raised |-> TRUE, chunk_end |-> end]
            ELSE [raised |-> FALSE, chunk_end |-> end]

InitSplit ==
    /\ ChunkerIdle /\ EmbedderIdle /\ LegacyIdle /\ FusionIdle /\ SearchIdle
    /\ AdapterIdle /\ FilterIdle /\ KeysIdle
    /\ sp_text \in SplitTexts
    /\ sp_cfg \in SplitConfigs
    /\ sp_start = 0
    /\ sp_chunks = <<>>
    /\ sp_pc = "loop"

\* the test of "while start < len(text)" fails: return chunks
SplitReturn ==
    /\ sp_pc = "loop"
    /\ ~(sp_start < Len(sp_text))
    /\ sp_pc' = "returned"
    /\ UNCHANGED <<sp_text, sp_cfg, sp_start, sp_chunks>>
    /\ UNCHANGED outsideSplit

\* one iteration of the while loop; the list of chunks is followed up to
\* MaxSplitChunks entries
SplitIteration ==
    /\ sp_pc = "loop"
    /\ sp_start < Len(sp_text)
    /\ Len(sp_chunks) < MaxSplitChunks
    /\ LET end == sp_start + sp_cfg.chunk_size
           r == ChunkEnd(sp_text, sp_cfg, sp_start)
       IN IF end >= Len(sp_text)
          THEN /\ sp_chunks' = Append(sp_chunks, <<sp_start, Len(sp_text)>>)
               /\ sp_start' = sp_start
               /\ sp_pc' = "returned"
          ELSE IF r.raised
          THEN /\ sp_chunks' = sp_chunks
               /\ sp_start' = sp_start
               /\ sp_pc' = "raised"
          ELSE /\ sp_chunks' = Append(sp_chunks, <<sp_start, r.chunk_end>>)
               /\ sp_start' = r.chunk_end - sp_cfg.chunk_overlap
               /\ sp_pc' = "loop"
    /\ UNCHANGED <<sp_text, sp_cfg>>
    /\ UNCHANGED outsideSplit

NextSplit == SplitReturn \/ SplitIteration

SpecSplit == InitSplit /\ [][NextSplit]_vars

\* C30: every iteration of the loop of _simple_split that does not end the
\* loop leaves start greater than before and not negative.
C30_StartIncreases ==
    [][(sp_pc = "loop" /\ sp_pc' = "loop") =>
          (sp_start' > sp_start /\ sp_start' >= 0)]_splitVars

====
